---------------------------- MODULE Spec2Model ----------------------------
(***************************************************************************)
(* A model of hier_config: the configuration tree (HConfig / HConfigChild) *)
(* as an object heap, its tree-store operations, and the remediation,      *)
(* difference and future algorithms that run over it.                      *)
(*                                                                         *)
(* Objects are heap cells addressed by their position in `heap`; a text is *)
(* a sequence of one-character strings, so that strip(), startswith() and  *)
(* removeprefix() are computed, not assumed.                               *)
(***************************************************************************)
EXTENDS Integers, Sequences, FiniteSets, TLC

VARIABLES heap, driver, last

vars == <<heap, driver, last>>

-----------------------------------------------------------------------------
(* Bounds of the model *)

\* Child objects the tree-store machine may allocate.
MaxNodes == 2
\* Child objects the query machine may allocate.
MaxQueryNodes == 3
\* Child objects the tag machine may allocate.
MaxTagNodes == 3
\* Child objects the tagged-tree machine may allocate.
MaxTaggedNodes == 2
\* Lines of the first tree of the view machine.
MaxViewLines == 3
\* Lines of the second tree of the view machine.
MaxSourceLines == 2
\* Lines of the running tree of the policy machine.
MaxRuleLines == 3
\* Lines of the target tree of the policy machine.
MaxRuleTargetLines == 2
\* Children held by the children container of the container machine.
MaxData == 3

\* Children handed to one extend call.
MaxExtend == 2

\* Lines of the tree of the ordering machine.
MaxOrderLines == 3

\* Characters of the text handed to expand_range.
MaxRangeLen == 4

\* Lines of the running tree and of the target tree of the frame machine.
MaxFrameLines == 3
MaxFrameTargetLines == 2

\* Lines of the running tree of the algorithm machine.
MaxLines == 4
\* Lines of a target tree that is built apart from the running tree.
MaxTargetLines == 2

-----------------------------------------------------------------------------
(* Python values *)

Nil == 0
None == <<>>
Some(v) == <<v>>
IsNone(o) == Len(o) = 0
Val(o) == o[1]

\* A str argument, or a collection (frozenset / tuple) of str.
Str(t) == [kind |-> "str", v |-> {t}]
Coll(S) == [kind |-> "coll", v |-> S]

Min(S) == CHOOSE x \in S : \A y \in S : x <= y

-----------------------------------------------------------------------------
(* str methods, over sequences of characters *)

Space == " "

startswith(s, p) == Len(p) <= Len(s) /\ SubSeq(s, 1, Len(p)) = p

endswith(s, p) == Len(p) <= Len(s) /\ SubSeq(s, Len(s) - Len(p) + 1, Len(s)) = p

contains(s, p) == \E i \in 1..(Len(s) - Len(p) + 1) : SubSeq(s, i, i + Len(p) - 1) = p

removeprefix(s, p) == IF startswith(s, p) THEN SubSeq(s, Len(p) + 1, Len(s)) ELSE s

strip(s) ==
    LET keep == {i \in 1..Len(s) : s[i] # Space}
    IN IF keep = {} THEN <<>>
       ELSE SubSeq(s, Min(keep), CHOOSE i \in keep : \A j \in keep : j <= i)

Digits == {"0", "1", "2", "3", "4", "5", "6", "7", "8", "9"}

isdecimal(w) == Len(w) > 0 /\ \A i \in 1..Len(w) : w[i] \in Digits

\* s.split(): the maximal runs of non-space characters.
RECURSIVE split(_)
split(s) ==
    LET t == strip(s)
    IN IF t = <<>> THEN <<>>
       ELSE LET sp == {i \in 1..Len(t) : t[i] = Space}
            IN IF sp = {} THEN <<t>>
               ELSE <<SubSeq(t, 1, Min(sp) - 1)>> \o split(SubSeq(t, Min(sp), Len(t)))

\* " ".join(words)
RECURSIVE join(_)
join(words) ==
    IF Len(words) = 0 THEN <<>>
    ELSE IF Len(words) = 1 THEN words[1]
    ELSE words[1] \o <<Space>> \o join(Tail(words))

-----------------------------------------------------------------------------
(* Objects *)

\* HConfig.__init__ : the root owns no text and is its own parent.
NewRoot(id) ==
    [kind |-> "root", parent |-> id, text |-> <<>>, children |-> <<>>,
     children_dict |-> <<>>, tags |-> {}, comments |-> {},
     new_in_config |-> FALSE, order_weight |-> 0, instances |-> <<>>]

\* HConfigChild.__init__ : the text is stored stripped.
NewChild(parent, text) ==
    [kind |-> "child", parent |-> parent, text |-> strip(text), children |-> <<>>,
     children_dict |-> <<>>, tags |-> {}, comments |-> {},
     new_in_config |-> FALSE, order_weight |-> 0, instances |-> <<>>]

Range(s) == {s[i] : i \in 1..Len(s)}

\* The children_dict is a Python dict: keys in insertion order.
DictHas(d, k) == \E i \in 1..Len(d) : d[i].k = k

DictGet(d, k) ==
    IF DictHas(d, k) THEN d[CHOOSE i \in 1..Len(d) : d[i].k = k].v ELSE Nil

\* d[k] = v
DictSet(d, k, v) ==
    IF DictHas(d, k)
    THEN [i \in 1..Len(d) |-> IF d[i].k = k THEN [k |-> k, v |-> v] ELSE d[i]]
    ELSE Append(d, [k |-> k, v |-> v])

\* d.setdefault(k, v)
DictSetDefault(d, k, v) == IF DictHas(d, k) THEN d ELSE Append(d, [k |-> k, v |-> v])

DictKeys(d) == {d[i].k : i \in 1..Len(d)}

\* HConfigBase.rebuild_children_dict
RECURSIVE RebuiltDict(_, _, _)
RebuiltDict(h, children, d) ==
    IF Len(children) = 0 THEN d
    ELSE RebuiltDict(h, Tail(children),
                     DictSetDefault(d, h[children[1]].text, children[1]))

rebuild_children_dict(h, self) ==
    [h EXCEPT ![self].children_dict = RebuiltDict(h, h[self].children, <<>>)]

\* HConfigChild.lineage / HConfig.lineage : outermost ancestor first, root excluded.
RECURSIVE lineage(_, _)
lineage(h, n) ==
    IF h[n].kind = "root" THEN <<>> ELSE Append(lineage(h, h[n].parent), n)

\* HConfigChild.depth / HConfig.depth
RECURSIVE depth(_, _)
depth(h, n) == IF h[n].kind = "root" THEN 0 ELSE depth(h, h[n].parent) + 1

\* HConfigChild.root
RECURSIVE root(_, _)
root(h, n) == IF h[n].kind = "root" THEN n ELSE root(h, h[n].parent)

\* HConfigChild.is_branch / HConfig.is_branch
is_branch(h, n) == h[n].kind = "root" \/ Len(h[n].children) > 0

is_leaf(h, n) == ~is_branch(h, n)

\* Every object found below n by following child lists (n excluded).
RECURSIVE Below(_, _)
Below(h, n) ==
    UNION {{c} \cup Below(h, c) : c \in Range(h[n].children)}

\* HConfigBase.all_children : depth-first, pre-order.
RECURSIVE all_children(_, _)
RECURSIVE AllOf(_, _)
AllOf(h, cs) ==
    IF Len(cs) = 0 THEN <<>>
    ELSE <<cs[1]>> \o all_children(h, cs[1]) \o AllOf(h, Tail(cs))

all_children(h, n) == AllOf(h, h[n].children)

-----------------------------------------------------------------------------
(* Match engine *)

NoRule == [equals |-> None, startswith |-> None, endswith |-> None, contains |-> None]

\* HConfigChild.matches, on the node's text (re_search is left out of the model's
\* rules: every rule here leaves it None, which matches() skips).
matches(text, equals, startswith_, endswith_, contains_) ==
    /\ IsNone(equals) \/ text \in Val(equals).v
    /\ IsNone(startswith_) \/ \E p \in Val(startswith_).v : startswith(text, p)
    /\ IsNone(endswith_) \/ \E p \in Val(endswith_).v : endswith(text, p)
    /\ IsNone(contains_) \/ \E p \in Val(contains_).v : contains(text, p)

MatchesRule(text, rule) ==
    matches(text, rule.equals, rule.startswith, rule.endswith, rule.contains)

\* HConfigChild.lineage_test
lineage_test(h, n, rules) ==
    LET lin == lineage(h, n)
    IN /\ Len(rules) = Len(lin)
       /\ \A i \in 1..Len(lin) : MatchesRule(h[lin[i]].text, rules[i])

AnyRule(h, n, rules) == \E i \in 1..Len(rules) : lineage_test(h, n, rules[i].lineage)

\* HConfigChild._duplicate_child_allowed_check / HConfig._duplicate_child_allowed_check
duplicate_child_allowed_check(h, n) ==
    IF h[n].kind = "root" THEN FALSE
    ELSE AnyRule(h, n, driver.parent_allows_duplicate_child_rules)

\* HConfigChild.sectional_overwrite_check
sectional_overwrite_check(h, n) == AnyRule(h, n, driver.sectional_overwrite_rules)

\* HConfigChild.sectional_overwrite_no_negate_check
sectional_overwrite_no_negate_check(h, n) ==
    AnyRule(h, n, driver.sectional_overwrite_no_negate_rules)

\* HConfigChild.negation_default_when_check
negation_default_when_check(h, n) == AnyRule(h, n, driver.negation_default_when_rules)

-----------------------------------------------------------------------------
(* Platform policy (HConfigDriverBase): the rule tables the tree consults *)

\* driver.negation_prefix, which HConfigChild._negation_prefix reads as well.
negation_prefix == driver.negation_prefix

DefaultPrefix == <<"d", "e", "f", "a", "u", "l", "t", " ">>

\* driver.negation_negate_with_check : the replacement text of the first rule
\* whose lineage matches, else None.
negation_negate_with_check(h, n) ==
    LET rules == driver.negation_negate_with_rules
        hit == {i \in 1..Len(rules) : lineage_test(h, n, rules[i].lineage)}
    IN IF hit = {} THEN None ELSE Some(rules[Min(hit)].use)

\* driver.idempotent_for : the first of other_children that matches the first
\* idempotent-commands rule the node itself matches, else Nil.
idempotent_for(h, n, other_children) ==
    LET rules == driver.idempotent_commands_rules
        pairs == {<<i, j>> \in (1..Len(rules)) \X (1..Len(other_children)) :
                     /\ lineage_test(h, n, rules[i].lineage)
                     /\ lineage_test(h, other_children[j], rules[i].lineage)}
    IN IF pairs = {} THEN Nil
       ELSE LET i == Min({q[1] : q \in pairs})
                j == Min({q[2] : q \in {r \in pairs : r[1] = i}})
            IN other_children[j]

\* driver.idempotent_acl_check : the base policy has no ACL idempotency.
idempotent_acl_check(h, n, other_children) == FALSE

-----------------------------------------------------------------------------
(* The children container (HConfigChildren): in the record of a container,   *)
(* children is its _data and children_dict its _mapping                      *)

\* HConfigChildren.__init__
NewChildren(id) == [NewRoot(id) EXCEPT !.kind = "children"]

\* for child in children: self._mapping.setdefault(child.text, child)
RECURSIVE SetDefaultEach(_, _, _)
SetDefaultEach(h, children, mapping) ==
    IF Len(children) = 0 THEN mapping
    ELSE SetDefaultEach(h, Tail(children),
                        DictSetDefault(mapping, h[children[1]].text, children[1]))

\* HConfigChildren.rebuild_mapping
rebuild_mapping(h, self) ==
    [h EXCEPT ![self].children_dict = SetDefaultEach(h, h[self].children, <<>>)]

\* HConfigChildren.__setitem__ , index counted from 0
children_setitem(h, self, i, child) ==
    rebuild_mapping([h EXCEPT ![self].children[i + 1] = child], self)

\* HConfigChildren.append
children_append(h, self, child, update_mapping) ==
    [h EXCEPT ![self].children = Append(@, child),
              ![self].children_dict =
                  IF update_mapping THEN DictSetDefault(@, h[child].text, child) ELSE @]

\* HConfigChildren.clear
children_clear(h, self) ==
    [h EXCEPT ![self].children = <<>>, ![self].children_dict = <<>>]

\* HConfigChildren.delete with a text
children_delete_text(h, self, text) ==
    LET keep(c) == h[c].text # text
    IN IF DictHas(h[self].children_dict, text)
       THEN rebuild_mapping([h EXCEPT ![self].children = SelectSeq(@, keep)], self)
       ELSE h

\* HConfigChildren.delete with a child
children_delete_child(h, self, child) ==
    LET keep(c) == c # child
        h1 == [h EXCEPT ![self].children = SelectSeq(@, keep)]
    IN IF Len(h[self].children) # Len(h1[self].children)
       THEN rebuild_mapping(h1, self)
       ELSE h1

\* HConfigChildren.extend : self._data.extend(children) runs through the
\* iterable first, then the loop over `children` runs through it again; a
\* one-shot iterator is exhausted by then and the loop body never runs.
children_extend(h, self, children, one_shot) ==
    [h EXCEPT ![self].children = @ \o children,
              ![self].children_dict =
                  SetDefaultEach(h, IF one_shot THEN <<>> ELSE children, @)]

-----------------------------------------------------------------------------
(* Tree store *)

NoErr == "none"

Result(h, ret, err) == [h |-> h, ret |-> ret, err |-> err]

\* HConfigBase.add_child
add_child(h, self, text, raise_on_duplicate, force_duplicate) ==
    LET new == Len(h) + 1
        h1 == Append(h, NewChild(self, text))
    IN IF text = <<>> THEN Result(h, Nil, "ValueError")
       ELSE IF ~DictHas(h[self].children_dict, text)
       THEN Result([h1 EXCEPT ![self].children = Append(@, new),
                              ![self].children_dict = DictSet(@, text, new)],
                   new, NoErr)
       ELSE IF duplicate_child_allowed_check(h, self) \/ force_duplicate
       THEN Result([h1 EXCEPT ![self].children = Append(@, new)], new, NoErr)
       ELSE IF raise_on_duplicate THEN Result(h, Nil, "DuplicateChildError")
       ELSE Result(h, DictGet(h[self].children_dict, text), NoErr)

\* HConfigBase.add_children : the first failing line ends the loop.
RECURSIVE add_children(_, _, _)
add_children(h, self, lines) ==
    IF Len(lines) = 0 THEN Result(h, Nil, NoErr)
    ELSE LET r == add_child(h, self, lines[1], FALSE, FALSE)
         IN IF r.err # NoErr THEN r ELSE add_children(r.h, self, Tail(lines))

\* HConfig.add_children_deep / HConfigChild.add_children_deep
RECURSIVE add_children_deep(_, _, _)
add_children_deep(h, base, lines) ==
    IF Len(lines) = 0
    THEN (IF h[base].kind = "root" THEN Result(h, Nil, "TypeError")
          ELSE Result(h, base, NoErr))
    ELSE LET r == add_child(h, base, lines[1], FALSE, FALSE)
         IN IF r.err # NoErr THEN r ELSE add_children_deep(r.h, r.ret, Tail(lines))

\* HConfigBase.delete_child_by_text
delete_child_by_text(h, self, text) ==
    LET keep(c) == h[c].text # text
    IN IF DictHas(h[self].children_dict, text)
       THEN rebuild_children_dict([h EXCEPT ![self].children = SelectSeq(@, keep)], self)
       ELSE h

\* HConfigBase.delete_child
delete_child(h, self, child) ==
    LET keep(c) == c # child
        h1 == [h EXCEPT ![self].children = SelectSeq(@, keep)]
    IN IF Len(h[self].children) # Len(h1[self].children)
       THEN rebuild_children_dict(h1, self)
       ELSE h1

\* HConfigChild.delete
delete(h, n) == delete_child(h, h[n].parent, n)

\* HConfigBase.delete_all_children
delete_all_children(h, self) ==
    rebuild_children_dict([h EXCEPT ![self].children = <<>>], self)

\* HConfigChild.text (setter)
set_text(h, n, value) ==
    rebuild_children_dict([h EXCEPT ![n].text = strip(value)], h[n].parent)

\* HConfigChild.text_without_negation
text_without_negation(h, n) == removeprefix(h[n].text, negation_prefix)

\* HConfigChild._swap_negation
swap_negation(h, n) ==
    IF startswith(h[n].text, negation_prefix)
    THEN set_text(h, n, text_without_negation(h, n))
    ELSE set_text(h, n, negation_prefix \o h[n].text)

\* HConfigChild._default
default(h, n) == set_text(h, n, DefaultPrefix \o text_without_negation(h, n))

\* HConfigChild.negate
negate(h, n) ==
    LET negate_with == negation_negate_with_check(h, n)
    IN IF ~IsNone(negate_with) /\ Val(negate_with) # <<>>
       THEN set_text(h, n, Val(negate_with))
       ELSE IF negation_default_when_check(h, n) THEN default(h, n)
       ELSE swap_negation(h, n)

\* HConfigChild.move : the parent back-reference of the moved child is not written.
move(h, n, new_parent) ==
    delete(rebuild_children_dict(
               [h EXCEPT ![new_parent].children = Append(@, n)], new_parent), n)

-----------------------------------------------------------------------------
(* Range expansion (platforms/functions.py) *)

\* s.split(sep=sep) : the text between the separators, empty parts included.
RECURSIVE split_sep(_, _)
split_sep(s, sep) ==
    LET at == {i \in 1..Len(s) : s[i] = sep}
    IN IF at = {} THEN <<s>>
       ELSE <<SubSeq(s, 1, Min(at) - 1)>> \o split_sep(SubSeq(s, Min(at) + 1, Len(s)), sep)

DigitValue(c) ==
    CASE c = "0" -> 0 [] c = "1" -> 1 [] c = "2" -> 2 [] c = "3" -> 3 [] c = "4" -> 4
      [] c = "5" -> 5 [] c = "6" -> 6 [] c = "7" -> 7 [] c = "8" -> 8 [] c = "9" -> 9

\* int(w), for a text of digits; int() of any other text of digits, commas and
\* dashes raises ValueError.
RECURSIVE IntOf(_)
IntOf(w) ==
    IF Len(w) = 0 THEN 0
    ELSE 10 * IntOf(SubSeq(w, 1, Len(w) - 1)) + DigitValue(w[Len(w)])

\* range(start, stop + 1)
RangeOf(start, stop) ==
    IF stop < start THEN <<>> ELSE [k \in 1..(stop - start + 1) |-> start + k - 1]

Raised(err) == [ret |-> <<>>, err |-> err]

\* The body of the loop of expand_range for one part: the second `if` has the
\* `else` that raises, so it is reached by every part that is not one integer.
ExpandOne(numbers, start_stop) ==
    IF Len(start_stop) = 2 /\ ~(isdecimal(start_stop[1]) /\ isdecimal(start_stop[2]))
    THEN Raised("ValueError")
    ELSE IF Len(start_stop) = 1
    THEN (IF isdecimal(start_stop[1])
          THEN [ret |-> Append(numbers, IntOf(start_stop[1])), err |-> NoErr]
          ELSE Raised("ValueError"))
    ELSE Raised("ValueError")

RECURSIVE ExpandEach(_, _)
ExpandEach(numbers, parts) ==
    IF Len(parts) = 0 THEN [ret |-> numbers, err |-> NoErr]
    ELSE LET r == ExpandOne(numbers, split_sep(parts[1], "-"))
         IN IF r.err # NoErr THEN r ELSE ExpandEach(r.ret, Tail(parts))

\* if len(set(numbers)) != len(numbers): raise ValueError
UniqueOrRaise(r) ==
    IF r.err = NoErr /\ Cardinality(Range(r.ret)) # Len(r.ret)
    THEN Raised("ValueError")
    ELSE r

\* expand_range
expand_range(number_range_str) ==
    UniqueOrRaise(ExpandEach(<<>>, split_sep(number_range_str, ",")))

-----------------------------------------------------------------------------
(* Tags *)

\* HConfigChild.tags / HConfig.tags (getter)
RECURSIVE tags(_, _)
tags(h, n) ==
    IF is_branch(h, n) THEN UNION {tags(h, c) : c \in Range(h[n].children)}
    ELSE h[n].tags

\* HConfigChild.tags_add
RECURSIVE tags_add(_, _, _)
RECURSIVE TagsAddEach(_, _, _)
TagsAddEach(h, cs, tag) ==
    IF Len(cs) = 0 THEN h ELSE TagsAddEach(tags_add(h, cs[1], tag), Tail(cs), tag)

\* tags_add with the leaf's tag set assigned instead of extended.
tags_add_assigning(h, n, tag) ==
    IF is_branch(h, n) THEN TagsAddEach(h, h[n].children, tag)
    ELSE [h EXCEPT ![n].tags = tag.v]

tags_add(h, n, tag) ==
    IF is_branch(h, n) THEN TagsAddEach(h, h[n].children, tag)
    ELSE [h EXCEPT ![n].tags = @ \cup tag.v]

\* HConfigChild.tags_remove : set.remove raises KeyError for a str that is absent,
\* set.difference_update never raises.
RECURSIVE tags_remove(_, _, _)
RECURSIVE TagsRemoveEach(_, _, _)
TagsRemoveEach(h, cs, tag) ==
    IF Len(cs) = 0 THEN Result(h, Nil, NoErr)
    ELSE LET r == tags_remove(h, cs[1], tag)
         IN IF r.err # NoErr THEN r ELSE TagsRemoveEach(r.h, Tail(cs), tag)

tags_remove(h, n, tag) ==
    IF is_branch(h, n) THEN TagsRemoveEach(h, h[n].children, tag)
    ELSE IF tag.kind = "str"
    THEN (IF tag.v \subseteq h[n].tags
          THEN Result([h EXCEPT ![n].tags = @ \ tag.v], Nil, NoErr)
          ELSE Result(h, Nil, "KeyError"))
    ELSE Result([h EXCEPT ![n].tags = @ \ tag.v], Nil, NoErr)

\* HConfigChild.tags (setter)
RECURSIVE set_tags(_, _, _)
RECURSIVE SetTagsEach(_, _, _)
SetTagsEach(h, cs, value) ==
    IF Len(cs) = 0 THEN h ELSE SetTagsEach(set_tags(h, cs[1], value), Tail(cs), value)

set_tags(h, n, value) ==
    IF is_branch(h, n) THEN SetTagsEach(h, h[n].children, value)
    ELSE [h EXCEPT ![n].tags = value]

\* line_inclusion_test with the exclusion consulted only when no include set is given.
line_inclusion_test_unvetoed(h, n, include_tags, exclude_tags) ==
    IF include_tags # {} THEN tags(h, n) \cap include_tags # {}
    ELSE IF exclude_tags # {} THEN tags(h, n) \cap exclude_tags = {}
    ELSE FALSE

\* The first branch of line_inclusion_test: include_line.
IncludeLine(h, n, include_tags) ==
    IF include_tags # {} THEN tags(h, n) \cap include_tags # {} ELSE FALSE

\* HConfigChild.line_inclusion_test
line_inclusion_test(h, n, include_tags, exclude_tags) ==
    IF exclude_tags # {} /\ (IncludeLine(h, n, include_tags) \/ include_tags = {})
    THEN tags(h, n) \cap exclude_tags = {}
    ELSE IncludeLine(h, n, include_tags)

-----------------------------------------------------------------------------
(* Ordering and structural equality *)

\* sorted(children) : HConfigChild.__lt__ compares order_weight; the sort is stable.
RECURSIVE sorted(_, _)
sorted(h, cs) ==
    IF Len(cs) = 0 THEN <<>>
    ELSE LET w == Min({h[cs[i]].order_weight : i \in 1..Len(cs)})
             first(c) == h[c].order_weight = w
             rest(c) == h[c].order_weight # w
         IN SelectSeq(cs, first) \o sorted(h, SelectSeq(cs, rest))

\* HConfigChild.__eq__
RECURSIVE NodeEq(_, _, _)
NodeEq(h, a, b) ==
    /\ h[a].text = h[b].text
    /\ tags(h, a) = tags(h, b)
    /\ h[a].comments = h[b].comments
    /\ h[a].new_in_config = h[b].new_in_config
    /\ Len(h[a].children) = Len(h[b].children)
    /\ LET sa == sorted(h, h[a].children)
           sb == sorted(h, h[b].children)
       IN \A i \in 1..Len(sa) : NodeEq(h, sa[i], sb[i])

\* list.__eq__ : element-wise, identical objects are equal.
ListEq(h, l1, l2) ==
    /\ Len(l1) = Len(l2)
    /\ \A i \in 1..Len(l1) : l1[i] = l2[i] \/ NodeEq(h, l1[i], l2[i])

\* HConfig.__eq__
RootEq(h, a, b) ==
    /\ Len(h[a].children) = Len(h[b].children)
    /\ LET sa == sorted(h, h[a].children)
           sb == sorted(h, h[b].children)
       IN \A i \in 1..Len(sa) : NodeEq(h, sa[i], sb[i])

\* list.index(child) : the first position holding the object or an equal one.
index(h, l, child) ==
    Min({i \in 1..Len(l) : l[i] = child \/ NodeEq(h, l[i], child)})

-----------------------------------------------------------------------------
(* Queries *)

TheStr(arg) == CHOOSE t \in arg.v : TRUE

\* The tail loop of get_children: children[from:] filtered by matches().
Scan(h, self, from, equals, startswith_, endswith_, contains_) ==
    LET hit(c) == matches(h[c].text, equals, startswith_, endswith_, contains_)
    IN SelectSeq(SubSeq(h[self].children, from, Len(h[self].children)), hit)

\* HConfigBase.get_children
get_children(h, self, equals, startswith_, endswith_, contains_) ==
    LET d == h[self].children_dict
        cs == h[self].children
    IN IF /\ ~IsNone(equals) /\ Val(equals).kind = "str"
          /\ IsNone(startswith_) /\ IsNone(endswith_) /\ IsNone(contains_)
       THEN LET child == DictGet(d, TheStr(Val(equals)))
            IN IF child # Nil
               THEN <<child>> \o Scan(h, self, index(h, cs, child) + 1,
                                       equals, startswith_, endswith_, contains_)
               ELSE <<>>
       ELSE IF /\ ~IsNone(startswith_)
               /\ IsNone(equals) /\ IsNone(endswith_) /\ IsNone(contains_)
       THEN LET keyhit(e) == \E p \in Val(startswith_).v : startswith(e.k, p)
                hits == SelectSeq(d, keyhit)
            IN IF Len(hits) = 0 THEN <<>>
               ELSE IF duplicate_child_allowed_check(h, self)
               THEN <<hits[1].v>> \o Scan(h, self, index(h, cs, hits[1].v) + 1,
                                           equals, startswith_, endswith_, contains_)
               ELSE [i \in 1..Len(hits) |-> hits[i].v]
       ELSE Scan(h, self, 1, equals, startswith_, endswith_, contains_)

\* HConfigBase.get_child
get_child(h, self, equals, startswith_, endswith_, contains_) ==
    LET found == get_children(h, self, equals, startswith_, endswith_, contains_)
    IN IF Len(found) = 0 THEN Nil ELSE found[1]

\* get_child(equals=text)
get_child_equals(h, self, text) == get_child(h, self, Some(Str(text)), None, None, None)

\* for rule in self.driver.ordering_rules: if child.lineage_test(rule.lineage):
\* child.order_weight = rule.weight  (the loop goes on after a match)
RECURSIVE WeighBy(_, _, _)
WeighBy(h, child, rules) ==
    IF Len(rules) = 0 THEN h
    ELSE WeighBy(IF lineage_test(h, child, rules[1].lineage)
                 THEN [h EXCEPT ![child].order_weight = rules[1].weight]
                 ELSE h,
                 child, Tail(rules))

RECURSIVE SetOrderWeightEach(_, _)
SetOrderWeightEach(h, cs) ==
    IF Len(cs) = 0 THEN h
    ELSE SetOrderWeightEach(WeighBy(h, cs[1], driver.ordering_rules), Tail(cs))

\* HConfig.set_order_weight
set_order_weight(h, self) == SetOrderWeightEach(h, all_children(h, self))

-----------------------------------------------------------------------------
(* Copies *)

\* HConfig(driver) : a new, empty root at the next free address.
HConfig(h) == Result(Append(h, NewRoot(Len(h) + 1)), Len(h) + 1, NoErr)

\* HConfigChild.instance
instance(h, n) == [id |-> n, comments |-> h[n].comments, tags |-> tags(h, n)]

\* The tail of add_shallow_copy_of: a leaf hands its tags to the copy.
CopyTags(h, new_child, from, child_to_add) ==
    IF is_leaf(from, child_to_add)
    THEN tags_add(h, new_child, Coll(tags(from, child_to_add)))
    ELSE h

\* add_shallow_copy_of that appends no merge-instance record.
CopyFieldsUnrecorded(r, from, child_to_add, merged) ==
    IF r.err # NoErr THEN r
    ELSE Result(CopyTags([r.h EXCEPT
                             ![r.ret].comments = @ \cup from[child_to_add].comments,
                             ![r.ret].order_weight = from[child_to_add].order_weight],
                         r.ret, from, child_to_add),
                r.ret, NoErr)

\* The body of add_shallow_copy_of once add_child has returned new_child (r).
CopyFields(r, from, child_to_add, merged) ==
    IF r.err # NoErr THEN r
    ELSE Result(CopyTags([r.h EXCEPT
                             ![r.ret].instances =
                                 IF merged THEN Append(@, instance(from, child_to_add))
                                 ELSE @,
                             ![r.ret].comments = @ \cup from[child_to_add].comments,
                             ![r.ret].order_weight = from[child_to_add].order_weight],
                         r.ret, from, child_to_add),
                r.ret, NoErr)

\* HConfigBase.add_shallow_copy_of
add_shallow_copy_of(h, self, child_to_add, merged) ==
    CopyFields(add_child(h, self, h[child_to_add].text, FALSE, FALSE),
               h, child_to_add, merged)

\* HConfigBase.add_deep_copy_of
RECURSIVE add_deep_copy_of(_, _, _, _)
RECURSIVE AddDeepCopyEach(_, _, _, _)
AddDeepCopyNext(r, new_child, cs, merged) ==
    IF r.err # NoErr THEN r ELSE AddDeepCopyEach(r.h, new_child, cs, merged)

AddDeepCopyEach(h, new_child, cs, merged) ==
    IF Len(cs) = 0 THEN Result(h, new_child, NoErr)
    ELSE AddDeepCopyNext(add_deep_copy_of(h, new_child, cs[1], merged),
                         new_child, Tail(cs), merged)

AddDeepCopyBelow(r, cs, merged) ==
    IF r.err # NoErr THEN r ELSE AddDeepCopyEach(r.h, r.ret, cs, merged)

add_deep_copy_of(h, self, child_to_add, merged) ==
    AddDeepCopyBelow(add_shallow_copy_of(h, self, child_to_add, merged),
                     h[child_to_add].children, merged)

\* HConfig.deep_copy
RECURSIVE DeepCopyEach(_, _, _)
DeepCopyNext(r, new_instance, cs) ==
    IF r.err # NoErr THEN r ELSE DeepCopyEach(r.h, new_instance, cs)

DeepCopyEach(h, new_instance, cs) ==
    IF Len(cs) = 0 THEN Result(h, new_instance, NoErr)
    ELSE DeepCopyNext(add_deep_copy_of(h, new_instance, cs[1], FALSE),
                      new_instance, Tail(cs))

DeepCopyInto(new_instance, cs) == DeepCopyEach(new_instance.h, new_instance.ret, cs)

deep_copy(h, self) == DeepCopyInto(HConfig(h), h[self].children)

\* HConfigBase._with_tags : the children whose tags hold every requested tag are
\* copied, each with the children of its own that do.
RECURSIVE _with_tags(_, _, _, _)
WithTagsBelow(new_child, child, tags_) == _with_tags(new_child.h, child, tags_, new_child.ret)

RECURSIVE WithTagsEach(_, _, _, _)
WithTagsEach(h, cs, tags_, new_instance) ==
    IF Len(cs) = 0 THEN h
    ELSE WithTagsEach(IF tags_ \subseteq tags(h, cs[1])
                      THEN WithTagsBelow(add_shallow_copy_of(h, new_instance, cs[1], FALSE),
                                         cs[1], tags_)
                      ELSE h,
                      Tail(cs), tags_, new_instance)

_with_tags(h, self, tags_, new_instance) ==
    WithTagsEach(h, h[self].children, tags_, new_instance)

WithTagsInto(new_instance, self, tags_) ==
    Result(_with_tags(new_instance.h, self, tags_, new_instance.ret),
           new_instance.ret, NoErr)

\* HConfig.with_tags
with_tags(h, self, tags_) == WithTagsInto(HConfig(h), self, tags_)

\* HConfig.merge : every child of every other config is deep-copied, merged=True.
RECURSIVE MergeEach(_, _, _)
MergeEach(h, self, cs) ==
    IF Len(cs) = 0 THEN h
    ELSE MergeEach(add_deep_copy_of(h, self, cs[1], TRUE).h, self, Tail(cs))

RECURSIVE merge(_, _, _)
merge(h, self, other_configs) ==
    IF Len(other_configs) = 0 THEN Result(h, self, NoErr)
    ELSE merge(MergeEach(h, self, h[other_configs[1]].children), self, Tail(other_configs))

-----------------------------------------------------------------------------
(* Remediation: config_to_get_to *)

\* HConfigChild.is_idempotent_command
is_idempotent_command(h, n, other_children) ==
    IF AnyRule(h, n, driver.idempotent_commands_avoid_rules) THEN FALSE
    ELSE IF idempotent_acl_check(h, n, other_children) THEN TRUE
    ELSE idempotent_for(h, n, other_children) # Nil

\* node.comments.add(comment)
AddComment(h, n, comment) == [h EXCEPT ![n].comments = @ \cup {comment}]

\* deleted = delta.add_child(self.text).negate(); deleted.comments.add(...)
DropSection(r) == AddComment(negate(r.h, r.ret), r.ret, "dropping section")

\* new_item = delta.add_deep_copy_of(self); new_item.comments.add(...)
RecreateSection(r) == AddComment(r.h, r.ret, "re-create section")

\* The second half of overwrite_with: if self.children, the section is re-created.
OverwriteRecreate(h, self, delta) ==
    IF Len(h[self].children) > 0
    THEN RecreateSection(add_deep_copy_of(delete_child_by_text(h, delta, h[self].text),
                                          delta, self, FALSE))
    ELSE h

\* HConfigChild.overwrite_with
overwrite_with(h, self, other, delta, negate_) ==
    IF ListEq(h, h[other].children, h[self].children) THEN h
    ELSE OverwriteRecreate(
             IF negate_
             THEN DropSection(add_child(delete_child_by_text(h, delta, h[self].text),
                                        delta, h[self].text, FALSE, FALSE))
             ELSE h,
             self, delta)

\* deleted.comments.add(f"removes {len(self_child.children) + 1} lines")
RemovesLines(h, deleted, children) ==
    IF children > 0
    THEN AddComment(h, deleted, "removes " \o ToString(children + 1) \o " lines")
    ELSE h

\* deleted = delta.add_child(self_child.text); deleted.negate()
NegateIn(r, children) == RemovesLines(negate(r.h, r.ret), r.ret, children)

\* The left pass with the "removes N lines" comment put on the running line too.
ToGetToLeftOneCommenting(h, self_child, target, delta) ==
    IF DictHas(h[target].children_dict, h[self_child].text) THEN h
    ELSE IF is_idempotent_command(h, self_child, h[target].children) THEN h
    ELSE NegateIn(add_child(RemovesLines(h, self_child, Len(h[self_child].children)),
                            delta, h[self_child].text, FALSE, FALSE),
                  Len(h[self_child].children))

\* HConfigBase._config_to_get_to_left : what the running tree has and the target
\* has not is negated in delta, unless an idempotent command overwrites it.
ToGetToLeftOne(h, self_child, target, delta) ==
    IF DictHas(h[target].children_dict, h[self_child].text) THEN h
    ELSE IF is_idempotent_command(h, self_child, h[target].children) THEN h
    ELSE NegateIn(add_child(h, delta, h[self_child].text, FALSE, FALSE),
                  Len(h[self_child].children))

RECURSIVE ToGetToLeftEach(_, _, _, _)
ToGetToLeftEach(h, cs, target, delta) ==
    IF Len(cs) = 0 THEN h
    ELSE ToGetToLeftEach(ToGetToLeftOne(h, cs[1], target, delta), Tail(cs), target, delta)

_config_to_get_to_left(h, self, target, delta) ==
    ToGetToLeftEach(h, h[self].children, target, delta)

\* new_item.new_in_config = True, and the same for all of its children.
RECURSIVE MarkNew(_, _)
MarkNew(h, ns) ==
    IF Len(ns) = 0 THEN h
    ELSE MarkNew([h EXCEPT ![ns[1]].new_in_config = TRUE], Tail(ns))

\* if new_item.children: new_item.comments.add("new section")
NewSection(h, new_item) ==
    IF Len(h[new_item].children) > 0 THEN AddComment(h, new_item, "new section") ELSE h

\* The copy (r) is marked as new, the lines below it are not.
AbsentChildMarkedAlone(r) == NewSection(MarkNew(r.h, <<r.ret>>), r.ret)

\* The child is absent from the running tree: its copy (r) is marked as new.
AbsentChild(r) == NewSection(MarkNew(r.h, <<r.ret>> \o all_children(r.h, r.ret)), r.ret)

\* The child is in both trees and the recursion has filled subtree (in h).
PresentChild(h, subtree, self_child, target_child, delta) ==
    IF Len(h[subtree].children) = 0 THEN delete(h, subtree)
    ELSE IF sectional_overwrite_check(h, self_child)
    THEN overwrite_with(h, target_child, self_child, delta, TRUE)
    ELSE IF sectional_overwrite_no_negate_check(h, self_child)
    THEN overwrite_with(h, target_child, self_child, delta, FALSE)
    ELSE h

\* HConfigBase._config_to_get_to and HConfigBase._config_to_get_to_right : what the
\* target has is added to delta, recursing into the sections both trees have.
RECURSIVE _config_to_get_to(_, _, _, _)
RecurseInto(sub, self_child, target_child, delta) ==
    PresentChild(_config_to_get_to(sub.h, self_child, target_child, sub.ret),
                 sub.ret, self_child, target_child, delta)

ToGetToRightOne(h, target_child, self_child, delta) ==
    IF self_child # Nil
    THEN RecurseInto(add_child(h, delta, h[target_child].text, FALSE, FALSE),
                     self_child, target_child, delta)
    ELSE AbsentChild(add_deep_copy_of(h, delta, target_child, FALSE))

RECURSIVE ToGetToRightEach(_, _, _, _)
ToGetToRightEach(h, cs, self, delta) ==
    IF Len(cs) = 0 THEN h
    ELSE ToGetToRightEach(
             ToGetToRightOne(h, cs[1], get_child_equals(h, self, h[cs[1]].text), delta),
             Tail(cs), self, delta)

_config_to_get_to_right(h, self, target, delta) ==
    ToGetToRightEach(h, h[target].children, self, delta)

_config_to_get_to(h, self, target, delta) ==
    _config_to_get_to_right(_config_to_get_to_left(h, self, target, delta),
                            self, target, delta)

ToGetToInto(delta, self, target) ==
    Result(_config_to_get_to(delta.h, self, target, delta.ret), delta.ret, NoErr)

\* HConfig.config_to_get_to, called without a delta: a new root receives it.
config_to_get_to(h, self, target) == ToGetToInto(HConfig(h), self, target)

-----------------------------------------------------------------------------
(* Prediction: future *)

\* The children of self that a negate-with rule replaces by a text config holds.
NegatedBy(h, self, config) ==
    {c \in Range(h[self].children) :
        LET negation_text == negation_negate_with_check(h, c)
        IN /\ ~IsNone(negation_text) /\ Val(negation_text) # <<>>
           /\ get_child_equals(h, config, Val(negation_text)) # Nil}

\* HConfigBase._future_pre
_future_pre(h, self, config) ==
    [negated_or_recursed |-> {h[c].text : c \in NegatedBy(h, self, config)},
     config_children_ignore |->
         {h[get_child_equals(h, config, Val(negation_negate_with_check(h, c)))].text :
              c \in NegatedBy(h, self, config)}]

\* One turn of the loop over config.children: the heap it leaves and what it
\* adds to negated_or_recursed.
Turn(h, add) == [h |-> h, add |-> add]

\* HConfigBase._future
RECURSIVE _future(_, _, _, _)
FutureRecurse(r, self_child, config_child) ==
    _future(r.h, self_child, config_child, r.ret)

FutureOne(h, config_child, self, future_config, ignore, idem, self_child, negated_self) ==
    IF h[config_child].text \in ignore
    THEN Turn(h, {})
    ELSE IF \/ sectional_overwrite_check(h, config_child)
            \/ sectional_overwrite_no_negate_check(h, config_child)
    THEN Turn(add_deep_copy_of(h, future_config, config_child, FALSE).h, {})
    ELSE IF idem # Nil
    THEN Turn(add_deep_copy_of(h, future_config, config_child, FALSE).h, {h[idem].text})
    ELSE IF self_child # Nil
    THEN Turn(FutureRecurse(add_shallow_copy_of(h, future_config, self_child, FALSE),
                            self_child, config_child),
              {h[config_child].text})
    ELSE IF startswith(h[config_child].text, negation_prefix)
    THEN (IF get_child_equals(h, self, text_without_negation(h, config_child)) # Nil
          THEN Turn(h, {text_without_negation(h, config_child)})
          ELSE Turn(add_shallow_copy_of(h, future_config, config_child, FALSE).h, {}))
    ELSE IF negated_self # Nil
    THEN Turn(h, {h[negated_self].text})
    ELSE Turn(add_deep_copy_of(h, future_config, config_child, FALSE).h, {})

RECURSIVE FutureConfigEach(_, _, _, _, _, _)
FutureConfigNext(turn, cs, self, future_config, negated_or_recursed, ignore) ==
    FutureConfigEach(turn.h, cs, self, future_config,
                     negated_or_recursed \cup turn.add, ignore)

FutureConfigEach(h, cs, self, future_config, negated_or_recursed, config_children_ignore) ==
    IF Len(cs) = 0 THEN [h |-> h, negated_or_recursed |-> negated_or_recursed]
    ELSE FutureConfigNext(
             FutureOne(h, cs[1], self, future_config, config_children_ignore,
                       idempotent_for(h, cs[1], h[self].children),
                       get_child_equals(h, self, h[cs[1]].text),
                       get_child_equals(h, self, negation_prefix \o h[cs[1]].text)),
             Tail(cs), self, future_config, negated_or_recursed, config_children_ignore)

\* The loop over self.children: what no case above touched is kept.
RECURSIVE FutureSelfEach(_, _, _, _)
FutureSelfEach(h, cs, future_config, negated_or_recursed) ==
    IF Len(cs) = 0 THEN h
    ELSE FutureSelfEach(IF h[cs[1]].text \in negated_or_recursed THEN h
                        ELSE add_deep_copy_of(h, future_config, cs[1], FALSE).h,
                        Tail(cs), future_config, negated_or_recursed)

FutureSelf(done, cs, future_config) ==
    FutureSelfEach(done.h, cs, future_config, done.negated_or_recursed)

FutureFrom(h, self, config, future_config, pre) ==
    FutureSelf(FutureConfigEach(h, h[config].children, self, future_config,
                                pre.negated_or_recursed, pre.config_children_ignore),
               h[self].children, future_config)

_future(h, self, config, future_config) ==
    FutureFrom(h, self, config, future_config, _future_pre(h, self, config))

FutureInto(future_config, self, config) ==
    Result(_future(future_config.h, self, config, future_config.ret),
           future_config.ret, NoErr)

\* HConfig.future
future(h, self, config) == FutureInto(HConfig(h), self, config)

-----------------------------------------------------------------------------
(* Difference *)

\* HConfigBase._strip_acl_sequence_number
_strip_acl_sequence_number(h, hier_child) ==
    LET words == split(h[hier_child].text)
    IN IF isdecimal(words[1]) THEN join(Tail(words)) ELSE join(words)

AclWord == <<"a", "c", "c", "e", "s", "s", "-", "l", "i", "s", "t", " ">>

\* tuple(f"ip{x} access-list " for x in ("", "v4", "v6"))
acl_sw_matches ==
    {<<"i", "p", " ">> \o AclWord, <<"i", "p", "v", "4", " ">> \o AclWord,
     <<"i", "p", "v", "6", " ">> \o AclWord}

\* {self._strip_acl_sequence_number(c): c for c in target_child.children}
RECURSIVE AclChildren(_, _, _)
AclChildren(h, cs, d) ==
    IF Len(cs) = 0 THEN d
    ELSE AclChildren(h, Tail(cs), DictSet(d, _strip_acl_sequence_number(h, cs[1]), cs[1]))

\* if not delta_child.children: delta_child.delete()
DeleteIfEmpty(h, delta_child) ==
    IF Len(h[delta_child].children) = 0 THEN delete(h, delta_child) ELSE h

\* HConfigBase._difference
RECURSIVE _difference(_, _, _, _, _, _)
DifferenceRecurse(sub, h, self_child, target_child) ==
    DeleteIfEmpty(
        IF \E p \in acl_sw_matches : startswith(h[self_child].text, p)
        THEN _difference(sub.h, self_child, target_child, sub.ret,
                         AclChildren(h, h[target_child].children, <<>>), TRUE)
        ELSE _difference(sub.h, self_child, target_child, sub.ret, <<>>, FALSE),
        sub.ret)

DifferenceOne(h, self_child, target_child, delta) ==
    IF \/ startswith(h[self_child].text, negation_prefix)
       \/ startswith(h[self_child].text, DefaultPrefix)
    THEN h
    ELSE IF target_child = Nil
    THEN add_deep_copy_of(h, delta, self_child, FALSE).h
    ELSE DifferenceRecurse(add_child(h, delta, h[self_child].text, FALSE, FALSE),
                           h, self_child, target_child)

RECURSIVE DifferenceEach(_, _, _, _, _, _)
DifferenceEach(h, cs, target, delta, target_acl_children, in_acl) ==
    IF Len(cs) = 0 THEN h
    ELSE DifferenceEach(
             DifferenceOne(h, cs[1],
                           IF in_acl
                           THEN DictGet(target_acl_children,
                                        _strip_acl_sequence_number(h, cs[1]))
                           ELSE get_child_equals(h, target, h[cs[1]].text),
                           delta),
             Tail(cs), target, delta, target_acl_children, in_acl)

_difference(h, self, target, delta, target_acl_children, in_acl) ==
    DifferenceEach(h, h[self].children, target, delta, target_acl_children, in_acl)

DifferenceInto(delta, self, target) ==
    Result(_difference(delta.h, self, target, delta.ret, <<>>, FALSE), delta.ret, NoErr)

\* HConfig.difference
difference(h, self, target) == DifferenceInto(HConfig(h), self, target)

-----------------------------------------------------------------------------
(* Unified diff *)

RECURSIVE Spaces(_)
Spaces(k) == IF k <= 0 THEN <<>> ELSE <<Space>> \o Spaces(k - 1)

\* HConfigChild.indentation
indentation(h, n) == Spaces(driver.indentation * (depth(h, n) - 1))

\* HConfigBase.all_children_sorted
RECURSIVE all_children_sorted(_, _)
RECURSIVE AllSortedOf(_, _)
AllSortedOf(h, cs) ==
    IF Len(cs) = 0 THEN <<>>
    ELSE <<cs[1]>> \o all_children_sorted(h, cs[1]) \o AllSortedOf(h, Tail(cs))

all_children_sorted(h, n) == AllSortedOf(h, sorted(h, h[n].children))

\* f"{c.indentation}{sign} {c.text}"
DiffLine(h, c, sign) == indentation(h, c) \o <<sign, Space>> \o h[c].text

DiffLines(h, cs, sign) == [i \in 1..Len(cs) |-> DiffLine(h, cs[i], sign)]

\* chain(self_iter, (peek,), found), when found yields anything
WithHeader(h, self_child, found) ==
    IF Len(found) > 0
    THEN <<indentation(h, self_child) \o h[self_child].text>> \o found
    ELSE <<>>

\* HConfigBase.unified_diff : the lines it yields, in order.
RECURSIVE unified_diff(_, _, _)
UnifiedDiffSelfOne(h, self_child, target_child) ==
    IF target_child # Nil
    THEN WithHeader(h, self_child, unified_diff(h, self_child, target_child))
    ELSE <<DiffLine(h, self_child, "-")>>
         \o DiffLines(h, all_children_sorted(h, self_child), "-")

RECURSIVE UnifiedDiffSelfEach(_, _, _)
UnifiedDiffSelfEach(h, cs, target) ==
    IF Len(cs) = 0 THEN <<>>
    ELSE UnifiedDiffSelfOne(h, cs[1], DictGet(h[target].children_dict, h[cs[1]].text))
         \o UnifiedDiffSelfEach(h, Tail(cs), target)

RECURSIVE UnifiedDiffTargetEach(_, _, _)
UnifiedDiffTargetEach(h, cs, self) ==
    IF Len(cs) = 0 THEN <<>>
    ELSE (IF ~DictHas(h[self].children_dict, h[cs[1]].text)
          THEN <<DiffLine(h, cs[1], "+")>>
               \o DiffLines(h, all_children_sorted(h, cs[1]), "+")
          ELSE <<>>)
         \o UnifiedDiffTargetEach(h, Tail(cs), self)

unified_diff(h, self, target) ==
    UnifiedDiffSelfEach(h, h[self].children, target)
        \o UnifiedDiffTargetEach(h, h[target].children, self)

-----------------------------------------------------------------------------
(* Inputs: texts, tags, policies *)

A == <<"a">>
B == <<"b">>
PadA == <<" ", "a">>
Blank == <<" ">>
Empty == <<>>
NoPrefix == <<"n", "o", " ">>
NoA == NoPrefix \o A
NoB == NoPrefix \o B

EqualsRule(t) == [NoRule EXCEPT !.equals = Some(Str(t))]
StartswithRule(t) == [NoRule EXCEPT !.startswith = Some(Str(t))]

\* A policy without rules: prefix negation with "no ", two-space indentation.
BasePolicy ==
    [negation_prefix |-> NoPrefix, indentation |-> 2,
     parent_allows_duplicate_child_rules |-> <<>>,
     sectional_overwrite_rules |-> <<>>,
     sectional_overwrite_no_negate_rules |-> <<>>,
     idempotent_commands_rules |-> <<>>,
     idempotent_commands_avoid_rules |-> <<>>,
     negation_default_when_rules |-> <<>>,
     negation_negate_with_rules |-> <<>>,
     ordering_rules |-> <<>>]

\* Sections "a" at the top level may hold duplicate children.
DupPolicy ==
    [BasePolicy EXCEPT !.parent_allows_duplicate_child_rules =
                           <<[lineage |-> <<EqualsRule(A)>>]>>]

StorePolicies == {BasePolicy, DupPolicy}

\* Sections "a" at the top level are rewritten as a whole when they differ.
OverwritePolicy ==
    [BasePolicy EXCEPT !.sectional_overwrite_rules =
                           <<[lineage |-> <<EqualsRule(A)>>]>>]

AlgPolicies == {BasePolicy, DupPolicy, OverwritePolicy}

A1 == <<"a", "1">>
A2 == <<"a", "2">>

\* Sections "a" at the top level are rewritten as a whole, without a negation.
NoNegatePolicy ==
    [BasePolicy EXCEPT !.sectional_overwrite_no_negate_rules =
                           <<[lineage |-> <<EqualsRule(A)>>]>>]

\* Top-level commands "a..." overwrite one another.
IdemPolicy ==
    [BasePolicy EXCEPT !.idempotent_commands_rules =
                           <<[lineage |-> <<StartswithRule(<<"a">>)>>]>>]

\* ... except "a1", which is a list-style command.
AvoidPolicy ==
    [IdemPolicy EXCEPT !.idempotent_commands_avoid_rules =
                           <<[lineage |-> <<EqualsRule(A1)>>]>>]

\* Top-level commands "a..." are negated by setting "a2"; every other top-level
\* command is negated by "default ...".
NegatePolicy ==
    [BasePolicy EXCEPT !.negation_negate_with_rules =
                           <<[lineage |-> <<StartswithRule(<<"a">>)>>, use |-> A2]>>,
                       !.negation_default_when_rules =
                           <<[lineage |-> <<NoRule>>]>>]

\* Top-level commands "a..." sort with weight 1, the command "a1" with weight 2.
OrderPolicy ==
    [BasePolicy EXCEPT !.ordering_rules =
                           <<[lineage |-> <<StartswithRule(<<"a">>)>>, weight |-> 1],
                             [lineage |-> <<EqualsRule(A1)>>, weight |-> 2]>>]

ValuePolicies == {IdemPolicy, AvoidPolicy, NegatePolicy}

RulePolicies == AlgPolicies \cup {NoNegatePolicy} \cup ValuePolicies

AddTexts == {A, PadA, Blank, Empty}
LineLists == {<<Blank, A>>, <<A, Empty>>}
RenameTexts == {B}
DeleteTexts == {A}
Flags == {<<FALSE, FALSE>>, <<TRUE, FALSE>>, <<FALSE, TRUE>>}

QueryAddTexts == {A, PadA}
QueryTexts == {A, PadA}

AlgTexts == {A, NoA}
ValueTexts == {A1, A2, B}

TagTexts == {A, B}
TagArgs == {Str("t"), Str("u"), Coll({"t"})}
TagValues == {{}, {"u"}}
TagSets == {{}, {"t"}, {"u"}}
ViewTags == {Str("t"), Str("u")}
ViewTagSets == SUBSET {"t", "u"}

-----------------------------------------------------------------------------
(* The tree-store machine: one tree, mutated and queried by its caller *)

Root == 1

Idle ==
    [op |-> "init", self |-> Nil, text |-> <<>>, raise |-> FALSE, force |-> FALSE,
     tag |-> Coll({}), ret |-> <<>>, err |-> NoErr,
     again |-> FALSE, prev |-> <<>>, prevnew |-> FALSE, target |-> Nil,
     include_tags |-> {}, exclude_tags |-> {}]

Call(op, self) == [Idle EXCEPT !.op = op, !.self = self]

RetOf(r) == IF r.ret = Nil THEN <<>> ELSE <<r.ret>>

\* The objects of the tree: the root and everything its child lists reach.
Attached(h) == {Root} \cup Below(h, Root)

Init ==
    /\ heap = <<NewRoot(Root)>>
    /\ driver \in StorePolicies
    /\ last = Idle

\* add_child as the caller's step, within `bound` allocated children.
AddChildStep(texts, flags, bound, track) ==
    \E p \in Attached(heap), text \in texts, f \in flags :
        LET r == add_child(heap, p, text, f[1], f[2])
        IN /\ Len(r.h) <= 1 + bound
           /\ heap' = r.h
           /\ last' = [Call("add_child", p) EXCEPT
                          !.text = text, !.raise = f[1], !.force = f[2],
                          !.ret = RetOf(r), !.err = r.err,
                          !.again = /\ track
                                    /\ last.op = "add_child" /\ last.self = p
                                    /\ last.text = text /\ last.err = NoErr
                                    /\ ~last.force /\ ~f[2],
                          !.prev = IF track THEN last.ret ELSE <<>>,
                          !.prevnew = /\ track /\ last.op = "add_child"
                                      /\ last.ret = <<Len(heap)>>]
           /\ UNCHANGED driver

AddChild == AddChildStep(AddTexts, Flags, MaxNodes, FALSE)

AddChildren ==
    \E p \in Attached(heap), lines \in LineLists :
        LET r == add_children(heap, p, lines)
        IN /\ Len(r.h) <= 1 + MaxNodes
           /\ heap' = r.h
           /\ last' = [Call("add_children", p) EXCEPT !.err = r.err]
           /\ UNCHANGED driver

AddChildrenDeep ==
    \E p \in Attached(heap), lines \in LineLists :
        LET r == add_children_deep(heap, p, lines)
        IN /\ Len(r.h) <= 1 + MaxNodes
           /\ heap' = r.h
           /\ last' = [Call("add_children_deep", p) EXCEPT
                          !.ret = RetOf(r), !.err = r.err]
           /\ UNCHANGED driver

Delete ==
    \E n \in Attached(heap) \ {Root} :
        /\ heap' = delete(heap, n)
        /\ last' = Call("delete", n)
        /\ UNCHANGED driver

DeleteChildByText ==
    \E p \in Attached(heap), text \in DeleteTexts :
        /\ heap' = delete_child_by_text(heap, p, text)
        /\ last' = [Call("delete_child_by_text", p) EXCEPT !.text = text]
        /\ UNCHANGED driver

DeleteAllChildren ==
    \E p \in Attached(heap) :
        /\ heap' = delete_all_children(heap, p)
        /\ last' = Call("delete_all_children", p)
        /\ UNCHANGED driver

SetText ==
    \E n \in Attached(heap) \ {Root}, value \in RenameTexts :
        /\ heap' = set_text(heap, n, value)
        /\ last' = [Call("set_text", n) EXCEPT !.text = value]
        /\ UNCHANGED driver

Negate ==
    \E n \in Attached(heap) \ {Root} :
        /\ heap' = negate(heap, n)
        /\ last' = Call("negate", n)
        /\ UNCHANGED driver

\* A node is moved under a parent outside its own subtree.  The moved node keeps
\* its old parent back-reference, so repeated moves can list it more than once:
\* the length of the new parent's list is capped.
Move ==
    \E n \in Attached(heap) \ {Root}, p \in Attached(heap) :
        /\ p \notin {n} \cup Below(heap, n)
        /\ Len(heap[p].children) < MaxNodes
        /\ heap' = move(heap, n, p)
        /\ last' = [Call("move", n) EXCEPT !.ret = <<p>>]
        /\ UNCHANGED driver

Next ==
    \/ AddChild
    \/ AddChildren
    \/ AddChildrenDeep
    \/ Delete
    \/ DeleteChildByText
    \/ DeleteAllChildren
    \/ SetText
    \/ Negate
    \/ Move

Spec == Init /\ [][Next]_vars

-----------------------------------------------------------------------------
(* The query machine: a tree is grown, get_children is called on it *)

QueryAddChild == AddChildStep(QueryAddTexts, Flags, MaxQueryNodes, TRUE)

GetChildrenEquals ==
    \E p \in Attached(heap), text \in QueryTexts :
        /\ last' = [Call("get_children_equals", p) EXCEPT
                       !.text = text,
                       !.ret = get_children(heap, p, Some(Str(text)), None, None, None)]
        /\ UNCHANGED <<heap, driver>>

GetChildrenStartswith ==
    \E p \in Attached(heap), text \in QueryTexts :
        /\ last' = [Call("get_children_startswith", p) EXCEPT
                       !.text = text,
                       !.ret = get_children(heap, p, None, Some(Str(text)), None, None)]
        /\ UNCHANGED <<heap, driver>>

NextQuery ==
    \/ QueryAddChild
    \/ GetChildrenEquals
    \/ GetChildrenStartswith

SpecQuery == Init /\ [][NextQuery]_vars

-----------------------------------------------------------------------------
(* The tag machine: a tree is grown, tags are added to and removed from it *)

TagAddChild == AddChildStep(TagTexts, {<<FALSE, FALSE>>}, MaxTagNodes, FALSE)

TagsAdd ==
    \E n \in Attached(heap) \ {Root}, tag \in TagArgs :
        /\ heap' = tags_add(heap, n, tag)
        /\ last' = [Call("tags_add", n) EXCEPT !.tag = tag]
        /\ UNCHANGED driver

TagsRemove ==
    \E n \in Attached(heap) \ {Root}, tag \in TagArgs :
        LET r == tags_remove(heap, n, tag)
        IN /\ heap' = r.h
           /\ last' = [Call("tags_remove", n) EXCEPT !.tag = tag, !.err = r.err]
           /\ UNCHANGED driver

NextTags ==
    \/ TagAddChild
    \/ TagsAdd
    \/ TagsRemove

InitTags ==
    /\ heap = <<NewRoot(Root)>>
    /\ driver = BasePolicy
    /\ last = Idle

SpecTags == InitTags /\ [][NextTags]_vars

-----------------------------------------------------------------------------
(* The tagged-tree machine: lines are added and deleted, tags are added, removed *)
(* and assigned, and lines are tested against include / exclude tag sets        *)

TaggedAddChild == AddChildStep(TagTexts, {<<FALSE, FALSE>>}, MaxTaggedNodes, FALSE)

TagDelete ==
    \E n \in Attached(heap) \ {Root} :
        /\ heap' = delete(heap, n)
        /\ last' = Call("delete", n)
        /\ UNCHANGED driver

\* node.tags = value, on a line or on the root.
TagsAssign ==
    \E n \in Attached(heap), value \in TagValues :
        /\ heap' = set_tags(heap, n, value)
        /\ last' = [Call("set_tags", n) EXCEPT !.tag = Coll(value)]
        /\ UNCHANGED driver

LineInclusionTest ==
    \E n \in Attached(heap) \ {Root}, include_tags \in TagSets, exclude_tags \in TagSets :
        /\ last' = [Call("line_inclusion_test", n) EXCEPT
                       !.include_tags = include_tags, !.exclude_tags = exclude_tags,
                       !.ret = <<line_inclusion_test(heap, n, include_tags, exclude_tags)>>]
        /\ UNCHANGED <<heap, driver>>

NextTagStore ==
    \/ TaggedAddChild
    \/ TagsAdd
    \/ TagsRemove
    \/ TagDelete
    \/ TagsAssign
    \/ LineInclusionTest

SpecTagStore == InitTags /\ [][NextTagStore]_vars

-----------------------------------------------------------------------------
(* The algorithm machine: a running tree and a target tree are loaded line by *)
(* line, then remediation, prediction and difference run over them           *)

\* The running tree is the first root; last.target holds the target's root.
Running == Root

\* Where the next line of a tree may go: under the line loaded last, under one
\* of its ancestors, or under the root (lines are loaded top to bottom).
Cursor(tree) ==
    {tree} \cup (IF last.op = "add_child" /\ last.ret # <<>>
                 THEN Range(lineage(heap, last.ret[1]))
                 ELSE {})

Loading == last.op \in {"init", "HConfig", "add_child"}

LoadLines(tree, bound, texts) ==
    \E p \in Cursor(tree), text \in texts :
        LET r == add_child(heap, p, text, FALSE, FALSE)
        IN /\ Cardinality(Below(r.h, tree)) <= bound
           /\ heap' = r.h
           /\ last' = [Call("add_child", p) EXCEPT
                          !.text = text, !.ret = RetOf(r), !.err = r.err,
                          !.target = last.target]
           /\ UNCHANGED driver

LoadStep(tree, bound) == LoadLines(tree, bound, AlgTexts)

AlgAddRunning == Loading /\ last.target = Nil /\ LoadStep(Running, MaxLines)

AlgAddTarget == Loading /\ last.target # Nil /\ LoadStep(last.target, MaxTargetLines)

\* A call returns the root r.ret of the tree it built in r.h.
Returns(r, call) ==
    /\ heap' = r.h
    /\ last' = [call EXCEPT !.ret = <<r.ret>>,
                            !.target = IF last.target = Nil THEN r.ret ELSE last.target]
    /\ UNCHANGED driver

\* The target starts as a new, empty tree ...
NewTarget ==
    /\ Loading /\ last.target = Nil
    /\ Returns(HConfig(heap), Call("HConfig", Running))

\* ... or as a copy of the running tree.
DeepCopy ==
    /\ Loading /\ last.target = Nil
    /\ Returns(deep_copy(heap, Running), Call("deep_copy", Running))

Loaded == last.target # Nil /\ last.op \in {"HConfig", "deep_copy", "add_child"}

ConfigToGetTo ==
    /\ Loaded
    /\ Returns(config_to_get_to(heap, Running, last.target),
               Call("config_to_get_to", Running))

\* running.future(remediation), on the remediation just computed.
Future ==
    /\ last.op = "config_to_get_to"
    /\ Returns(future(heap, Running, last.ret[1]),
               [Call("future", Running) EXCEPT !.prev = last.ret])

Difference ==
    /\ Loaded
    /\ Returns(difference(heap, Running, last.target), Call("difference", Running))

NextAlg ==
    \/ AlgAddRunning
    \/ AlgAddTarget
    \/ NewTarget
    \/ DeepCopy
    \/ ConfigToGetTo
    \/ Future
    \/ Difference

InitAlg ==
    /\ heap = <<NewRoot(Root)>>
    /\ driver \in AlgPolicies
    /\ last = Idle

SpecAlg == InitAlg /\ [][NextAlg]_vars

-----------------------------------------------------------------------------
(* The policy machine: the algorithm machine under every rule table, with the  *)
(* lines each table speaks about                                               *)

RuleTexts == IF driver \in ValuePolicies THEN ValueTexts ELSE AlgTexts

RuleAddRunning ==
    Loading /\ last.target = Nil /\ LoadLines(Running, MaxRuleLines, RuleTexts)

RuleAddTarget ==
    Loading /\ last.target # Nil /\ LoadLines(last.target, MaxRuleTargetLines, RuleTexts)

\* A line of the running tree is negated.
RuleNegate ==
    /\ Loading /\ last.target = Nil
    /\ \E n \in Below(heap, Running) :
           /\ heap' = negate(heap, n)
           /\ last' = Call("negate", n)
    /\ UNCHANGED driver

\* running.future(target) : the target tree is what is applied.
ApplyTarget ==
    /\ Loaded
    /\ Returns(future(heap, Running, last.target),
               [Call("future", Running) EXCEPT !.prev = <<last.target>>])

NextRules ==
    \/ RuleAddRunning
    \/ RuleAddTarget
    \/ NewTarget
    \/ RuleNegate
    \/ ConfigToGetTo
    \/ ApplyTarget

InitRules ==
    /\ heap = <<NewRoot(Root)>>
    /\ driver \in RulePolicies
    /\ last = Idle

SpecRules == InitRules /\ [][NextRules]_vars

-----------------------------------------------------------------------------
(* The view machine: two trees are loaded line by line, their lines tagged and *)
(* commented; then a tagged view is taken of the first, or the trees are merged *)

ViewAddFirst == Loading /\ last.target = Nil /\ LoadLines(Root, MaxViewLines, TagTexts)

ViewAddSecond ==
    Loading /\ last.target # Nil /\ LoadLines(last.target, MaxSourceLines, TagTexts)

\* The line loaded last is tagged.
ViewTag ==
    /\ last.op = "add_child" /\ last.ret # <<>> /\ last.tag = Coll({})
    /\ \E tag \in ViewTags :
           /\ heap' = tags_add(heap, last.ret[1], tag)
           /\ last' = [last EXCEPT !.tag = tag]
    /\ UNCHANGED driver

\* The line of the second tree loaded last is given a comment:
\* line.comments.add("c").
ViewComment ==
    /\ last.op = "add_child" /\ last.ret # <<>> /\ last.target # Nil
    /\ heap[last.ret[1]].comments = {}
    /\ heap' = AddComment(heap, last.ret[1], "c")
    /\ UNCHANGED <<driver, last>>

\* A second tree is begun beside a first tree that is no larger than it may get.
ViewNewSecond ==
    /\ Loading /\ last.target = Nil
    /\ Cardinality(Below(heap, Root)) <= MaxSourceLines
    /\ Returns(HConfig(heap), Call("HConfig", Root))

WithTags ==
    /\ Loading /\ last.target = Nil
    /\ \E tags_ \in ViewTagSets :
           Returns(with_tags(heap, Root, tags_),
                   [Call("with_tags", Root) EXCEPT !.tag = Coll(tags_)])

\* dest.merge(sources), dest being the root r.ret of r.h.
MergeInto(r, sources) ==
    /\ heap' = merge(r.h, r.ret, sources).h
    /\ last' = [Call("merge", r.ret) EXCEPT
                   !.ret = <<r.ret>>, !.prev = sources, !.target = last.target]
    /\ UNCHANGED driver

\* first.merge(second)
Merge == Loaded /\ MergeInto(Result(heap, Root, NoErr), <<last.target>>)

\* HConfig(driver).merge([first, second])
MergeAll == Loaded /\ MergeInto(HConfig(heap), <<Root, last.target>>)

NextViews ==
    \/ ViewAddFirst
    \/ ViewAddSecond
    \/ ViewTag
    \/ ViewComment
    \/ ViewNewSecond
    \/ WithTags
    \/ Merge
    \/ MergeAll

SpecViews == Init /\ [][NextViews]_vars

-----------------------------------------------------------------------------
(* The ordering machine: a tree is loaded, then its lines are given weights *)

OrderAddLine == Loading /\ LoadLines(Running, MaxOrderLines, ValueTexts)

SetOrderWeight ==
    /\ heap' = set_order_weight(heap, Running)
    /\ last' = Call("set_order_weight", Running)
    /\ UNCHANGED driver

NextOrder == OrderAddLine \/ SetOrderWeight

InitOrder ==
    /\ heap = <<NewRoot(Root)>>
    /\ driver = OrderPolicy
    /\ last = Idle

SpecOrder == InitOrder /\ [][NextOrder]_vars

-----------------------------------------------------------------------------
(* The range machine: expand_range is called on a text *)

RangeChars == {"1", "2", ",", "-"}

RangeTexts == UNION {[1..k -> RangeChars] : k \in 0..MaxRangeLen}

InitRange ==
    /\ heap = <<NewRoot(Root)>>
    /\ driver = BasePolicy
    /\ \E text \in RangeTexts : last = [Idle EXCEPT !.text = text]

ExpandRange ==
    /\ last.op = "init"
    /\ last' = [Call("expand_range", Nil) EXCEPT
                   !.text = last.text,
                   !.ret = expand_range(last.text).ret,
                   !.err = expand_range(last.text).err]
    /\ UNCHANGED <<heap, driver>>

NextRange == ExpandRange

SpecRange == InitRange /\ [][NextRange]_vars

-----------------------------------------------------------------------------
(* The frame machine: the algorithm machine over tagged and commented trees, *)
(* with every call that builds a new tree from them                          *)

FrameAddRunning ==
    Loading /\ last.target = Nil /\ LoadLines(Running, MaxFrameLines, AlgTexts)

FrameAddTarget ==
    Loading /\ last.target # Nil /\ LoadLines(last.target, MaxFrameTargetLines, AlgTexts)

\* The line of the running tree loaded last is tagged.
FrameTag == last.target = Nil /\ ViewTag

\* remediation.deep_copy(), on the remediation just computed; nothing is called
\* after it.
CopyRemediation ==
    /\ last.op = "config_to_get_to"
    /\ heap' = deep_copy(heap, last.ret[1]).h
    /\ last' = [Call("deep_copy", last.ret[1]) EXCEPT
                   !.ret = <<deep_copy(heap, last.ret[1]).ret>>, !.prev = last.ret]
    /\ UNCHANGED driver

NextFrame ==
    \/ FrameAddRunning
    \/ FrameAddTarget
    \/ FrameTag
    \/ NewTarget
    \/ DeepCopy
    \/ WithTags
    \/ ConfigToGetTo
    \/ CopyRemediation
    \/ ApplyTarget
    \/ Difference

SpecFrame == InitAlg /\ [][NextFrame]_vars

-----------------------------------------------------------------------------
(* The container machine: one children container and the children that the  *)
(* caller holds and hands to it                                              *)

Container == 1

\* The children the caller holds: three objects, two of which may share a text.
Held == {2, 3, 4}

HeldLists == UNION {[1..k -> Held] : k \in 0..MaxExtend}

InitChildren ==
    /\ \E t \in [Held -> {A, B}] :
           heap = <<NewChildren(Container), NewChild(Nil, t[2]), NewChild(Nil, t[3]),
                    NewChild(Nil, t[4])>>
    /\ driver = BasePolicy
    /\ last = Idle

ChildrenStep(h, call) ==
    /\ Len(h[Container].children) <= MaxData
    /\ heap' = h
    /\ last' = call
    /\ UNCHANGED driver

ChildrenAppend ==
    \E child \in Held :
        ChildrenStep(children_append(heap, Container, child, TRUE),
                     [Call("append", Container) EXCEPT !.ret = <<child>>])

ChildrenExtend ==
    \E children \in HeldLists, one_shot \in BOOLEAN :
        ChildrenStep(children_extend(heap, Container, children, one_shot),
                     [Call("extend", Container) EXCEPT !.prev = children,
                                                       !.force = one_shot])

ChildrenSetItem ==
    \E i \in 0..(Len(heap[Container].children) - 1), child \in Held :
        ChildrenStep(children_setitem(heap, Container, i, child),
                     [Call("__setitem__", Container) EXCEPT !.ret = <<child>>])

ChildrenDeleteChild ==
    \E child \in Held :
        ChildrenStep(children_delete_child(heap, Container, child),
                     [Call("delete", Container) EXCEPT !.ret = <<child>>])

ChildrenDeleteText ==
    \E text \in {A, B} :
        ChildrenStep(children_delete_text(heap, Container, text),
                     [Call("delete", Container) EXCEPT !.text = text])

ChildrenClear == ChildrenStep(children_clear(heap, Container), Call("clear", Container))

NextChildren ==
    \/ ChildrenAppend
    \/ ChildrenExtend
    \/ ChildrenSetItem
    \/ ChildrenDeleteChild
    \/ ChildrenDeleteText
    \/ ChildrenClear

SpecChildren == InitChildren /\ [][NextChildren]_vars

-----------------------------------------------------------------------------
(* Claims about the tree store *)

\* The text index of n agrees with its child list: the keys are the distinct
\* texts of the children and every key maps to the earliest child bearing it.
IndexAgrees(h, n) ==
    LET d == h[n].children_dict
        cs == h[n].children
    IN /\ DictKeys(d) = {h[c].text : c \in Range(cs)}
       /\ \A i \in 1..Len(d) :
              d[i].v = cs[Min({j \in 1..Len(cs) : h[cs[j]].text = d[i].k})]

\* C4: after any sequence of add_child, delete, delete_child_by_text,
\* delete_all_children, text rename and move, the text index of every node of the
\* tree has exactly the distinct texts of the node's children as keys and maps
\* each to the earliest child bearing that text.
C4_IndexAgreesEverywhere == \A n \in Attached(heap) : IndexAgrees(heap, n)

IsQuery == last.op \in {"get_children_equals", "get_children_startswith"}

\* What a full linear scan of the child list, filtered by matches(), yields for the
\* predicate of the last get_children call.
LinearScan ==
    IF last.op = "get_children_equals"
    THEN Scan(heap, last.self, 1, Some(Str(last.text)), None, None, None)
    ELSE Scan(heap, last.self, 1, None, Some(Str(last.text)), None, None)

\* C5: for a predicate that uses only equals=<str> or only startswith,
\* get_children yields the same children in the same order as a full linear scan
\* filtered by matches().  Stated for the parents whose text index agrees with
\* their child list, whether their duplicates were allowed by policy or forced.
C5_FastPathIsLinearScan ==
    (IsQuery /\ IndexAgrees(heap, last.self)) => last.ret = LinearScan

IsRepeatedAdd ==
    /\ last.op = "add_child" /\ last.again
    /\ ~last.raise /\ last.err = NoErr

CountText(h, n, text) == Cardinality({i \in 1..Len(h[n].children) : h[h[n].children[i]].text = text})

\* x comes before y in the sequence s.
ComesBefore(s, x, y) ==
    \E i, j \in 1..Len(s) : i < j /\ s[i] = x /\ s[j] = y

\* C6: add_child called twice with the same text (no force_duplicate) under a
\* parent that allows no duplicates returns the same node both times and leaves
\* one child with that text; under a parent that allows duplicates it returns
\* two distinct nodes, both yielded in insertion order by get_children(equals=text).
C6_AddTwice ==
    IsRepeatedAdd =>
        IF ~duplicate_child_allowed_check(heap, last.self)
        THEN /\ last.ret = last.prev
             /\ last.prevnew => CountText(heap, last.self, strip(last.text)) = 1
        ELSE /\ last.ret # last.prev
             /\ ComesBefore(get_children(heap, last.self, Some(Str(last.text)),
                                         None, None, None),
                            last.prev[1], last.ret[1])

\* C7: add_child(text, raise_on_duplicate=True), text not empty, on a parent that
\* allows no duplicates and already has a child with that text fails with
\* DuplicateChildError and leaves the heap as it was.
C7_RaiseOnDuplicate ==
    [][(/\ last'.op = "add_child" /\ last'.raise /\ ~last'.force
        /\ last'.text # <<>>
        /\ ~duplicate_child_allowed_check(heap, last'.self)
        /\ \E c \in Range(heap[last'.self].children) : heap[c].text = last'.text)
       => (last'.err = "DuplicateChildError" /\ heap' = heap)]_vars

\* C8: after any sequence of add_child / add_children / add_children_deep calls,
\* every node of the tree has a non-empty text.
C8_NoEmptyText == \A n \in Attached(heap) \ {Root} : heap[n].text # <<>>

-----------------------------------------------------------------------------
(* Claims about tags *)

LeavesBelow(h, n) == {c \in Below(h, n) : is_leaf(h, c)}

C10_TagsRemoveCompletes ==
    (last.op = "tags_remove" /\ is_branch(heap, last.self))
        => /\ last.err = NoErr
           /\ \A c \in LeavesBelow(heap, last.self) : last.tag.v \cap heap[c].tags = {}

\* C11: in every state reached by add_child, delete, tags_add, tags_remove and tags
\* assignment, a line that has children stores no tags of its own, and the tags
\* read on a branch are the union of the tags stored on its descendant leaves.
C11_TagsStoredOnLeaves ==
    \A n \in Attached(heap) :
        is_branch(heap, n)
            => /\ heap[n].tags = {}
               /\ tags(heap, n) = UNION {heap[c].tags : c \in LeavesBelow(heap, n)}

\* C12: line_inclusion_test agrees with its reference: with include tags the line
\* is included iff its tags meet the include tags and miss the exclude tags; with
\* exclude tags alone it is included iff its tags miss them; a line whose tags meet
\* the exclude tags is never included.
C12_LineInclusionReference ==
    last.op = "line_inclusion_test"
        => /\ last.include_tags # {}
                  => (last.ret[1] <=> /\ tags(heap, last.self) \cap last.include_tags # {}
                                      /\ tags(heap, last.self) \cap last.exclude_tags = {})
           /\ (last.include_tags = {} /\ last.exclude_tags # {})
                  => (last.ret[1] <=> tags(heap, last.self) \cap last.exclude_tags = {})
           /\ tags(heap, last.self) \cap last.exclude_tags # {} => ~last.ret[1]

\* A branch that reads both tags from its leaves is asked for "t" without "u":
\* the include set matches and the exclude set vetoes.
C12_Witness ==
    /\ last.op = "line_inclusion_test"
    /\ last.include_tags = {"t"} /\ last.exclude_tags = {"u"}
    /\ is_branch(heap, last.self)
    /\ tags(heap, last.self) = {"t", "u"}
    /\ last.ret = <<FALSE>>

\* The texts met from the root down to n.
PathOf(h, n) == [i \in 1..Len(lineage(h, n)) |-> h[lineage(h, n)[i]].text]

Paths(h, tree) == {PathOf(h, n) : n \in Below(h, tree)}

\* The paths of the objects ns, in the order of ns.
PathSeq(h, ns) == [i \in 1..Len(ns) |-> PathOf(h, ns[i])]

\* The lines of tree, in depth-first order, whose tags hold every tag of ts.
Tagged(h, tree, ts) ==
    LET keep(n) == ts \subseteq tags(h, n)
    IN SelectSeq(all_children(h, tree), keep)

\* C13: with_tags(tags) returns a new tree that holds, at the same paths and in
\* the same order, copies of exactly the lines whose tags are a superset of tags,
\* and every line of the returned tree has tags that are a superset of tags.
C13_WithTagsView ==
    last.op = "with_tags"
        => /\ PathSeq(heap, all_children(heap, last.ret[1]))
                  = PathSeq(heap, Tagged(heap, last.self, last.tag.v))
           /\ \A n \in Below(heap, last.ret[1]) : last.tag.v \subseteq tags(heap, n)

\* The lines of the source trees of the last merge.
SourceLines == UNION {Below(heap, last.prev[i]) : i \in 1..Len(last.prev)}

\* The lines of self that hold a merge-instance record of the source line s.
RecordedAt(h, self, s) ==
    {n \in Below(h, self) : \E k \in 1..Len(h[n].instances) : h[n].instances[k].id = s}

\* C14: after self.merge(sources) every path of every source is a path of self;
\* under a parent that allows no duplicates no text was added twice; every source
\* line has its record on exactly one line of self, at the same path, once, with
\* the source line's tags and comments, and self holds no other record.
C14_MergeRecords ==
    last.op = "merge"
        => /\ \A i \in 1..Len(last.prev) :
                  Paths(heap, last.prev[i]) \subseteq Paths(heap, last.ret[1])
           /\ \A p \in {last.ret[1]} \cup Below(heap, last.ret[1]) :
                  ~duplicate_child_allowed_check(heap, p)
                      => \A i, j \in 1..Len(heap[p].children) :
                             heap[heap[p].children[i]].text = heap[heap[p].children[j]].text
                                 => i = j
           /\ \A s \in SourceLines :
                  Cardinality(RecordedAt(heap, last.ret[1], s)) = 1
           /\ \A n \in Below(heap, last.ret[1]) :
                  \A k \in 1..Len(heap[n].instances) :
                      /\ heap[n].instances[k].id \in SourceLines
                      /\ PathOf(heap, heap[n].instances[k].id) = PathOf(heap, n)
                      /\ heap[n].instances[k].tags = tags(heap, heap[n].instances[k].id)
                      /\ heap[n].instances[k].comments
                             = heap[heap[n].instances[k].id].comments
                      /\ \A j \in 1..Len(heap[n].instances) :
                             heap[n].instances[j].id = heap[n].instances[k].id => j = k

\* Two sources were merged into an empty tree and one of its lines holds two
\* records, of source lines with different tags, one of them commented.
C14_Witness ==
    /\ last.op = "merge" /\ Len(last.prev) = 2
    /\ \E n \in Below(heap, last.ret[1]) :
           /\ Len(heap[n].instances) = 2
           /\ heap[n].instances[1].tags # heap[n].instances[2].tags
           /\ heap[n].instances[1].comments # heap[n].instances[2].comments

-----------------------------------------------------------------------------
(* Claims about remediation, prediction and difference *)

\* Two trees are structurally identical: the same texts in the same order, level
\* by level.
RECURSIVE SameTree(_, _, _)
SameTree(h, a, b) ==
    /\ Len(h[a].children) = Len(h[b].children)
    /\ \A i \in 1..Len(h[a].children) :
           /\ h[h[a].children[i]].text = h[h[b].children[i]].text
           /\ SameTree(h, h[a].children[i], h[b].children[i])

\* C1: config_to_get_to with a running tree T and a target structurally identical
\* to T returns a remediation without children, for every tree and policy.
C1_RemediateIdentical ==
    (last.op = "config_to_get_to" /\ SameTree(heap, last.self, last.target))
        => Len(heap[last.ret[1]].children) = 0

\* C2: without idempotency rules (and without ACL lines), the future of the
\* running tree under its remediation towards the target has an empty
\* unified_diff against the target.
C2_FutureReachesTarget ==
    (last.op = "future" /\ driver.idempotent_commands_rules = <<>>)
        => unified_diff(heap, last.ret[1], last.target) = <<>>

Prefixed(text) == startswith(text, negation_prefix) \/ startswith(text, DefaultPrefix)

\* The lines of the running tree that the target lacks at the same path, negated
\* and defaulted lines left out, with the ancestors that lead to them.
AbsentLines(h, self, target) ==
    LET absent == {p \in Paths(h, self) :
                      /\ p \notin Paths(h, target)
                      /\ \A i \in 1..Len(p) : ~Prefixed(p[i])}
    IN UNION {{SubSeq(p, 1, k) : k \in 1..Len(p)} : p \in absent}

\* C3: T1.difference(T2) holds exactly the lines of T1 absent by text from the
\* same path of T2, with their ancestors, and no line at any depth that starts
\* with the negation prefix or with "default ".
C3_DifferenceIsAbsentLines ==
    last.op = "difference"
        => /\ Paths(heap, last.ret[1]) = AbsentLines(heap, last.self, last.target)
           /\ \A n \in Below(heap, last.ret[1]) : ~Prefixed(heap[n].text)

-----------------------------------------------------------------------------
(* Claims about the passes of config_to_get_to and about negate *)

\* The line the passes pair with the path p below n: at each level the child
\* that get_child(equals=...) gives, so the first of duplicate siblings; n itself
\* for the empty path, Nil if no line is there.
RECURSIVE NodeAt(_, _, _)
NodeAt(h, n, p) ==
    IF p = <<>> \/ n = Nil THEN n
    ELSE NodeAt(h, get_child_equals(h, n, p[1]), Tail(p))

LinesAt(h, tree, p) == {d \in Below(h, tree) : PathOf(h, d) = p}

ParentPath(h, n) == PathOf(h, h[n].parent)

\* The line c has no line of its text at its path in the other tree, while its
\* parent's path is there: the two passes compare c's siblings with that level.
Absent(h, c, other) ==
    /\ NodeAt(h, other, ParentPath(h, c)) # Nil
    /\ NodeAt(h, other, PathOf(h, c)) = Nil

\* The siblings the other tree holds at the level of c.
SiblingsIn(h, c, other) == h[NodeAt(h, other, ParentPath(h, c))].children

\* c lies inside a section that a sectional-overwrite rule rewrites as a whole.
Overwritten(h, c) ==
    \E a \in Range(lineage(h, c)) \ {c} :
        sectional_overwrite_check(h, a) \/ sectional_overwrite_no_negate_check(h, a)

\* The text negate() gives a line with the lineage of c.
NegatedForm(h, c) == negate(h, c)[c].text

NegatedPath(h, c) == Append(ParentPath(h, c), NegatedForm(h, c))

RemovesComment(children) == "removes " \o ToString(children + 1) \o " lines"

IsRemediation(l) == l.op = "config_to_get_to"

\* C15: in config_to_get_to a running line absent from the target for which the
\* idempotent rule finds a sibling among the target's lines, and which no avoid
\* rule matches, is not negated: the remediation holds the target's line and no
\* negation made of the running line.  A running line an avoid rule matches is
\* negated like any other.
C15_IdempotentNotNegated ==
    IsRemediation(last)
        => \A c \in Below(heap, last.self) :
               (Absent(heap, c, last.target) /\ ~Overwritten(heap, c))
                   => /\ (/\ ~AnyRule(heap, c, driver.idempotent_commands_avoid_rules)
                          /\ idempotent_for(heap, c, SiblingsIn(heap, c, last.target)) # Nil)
                             => /\ \A d \in LinesAt(heap, last.ret[1], NegatedPath(heap, c)) :
                                       heap[d].new_in_config
                                /\ LinesAt(heap, last.ret[1],
                                           PathOf(heap, idempotent_for(heap, c,
                                                      SiblingsIn(heap, c, last.target))))
                                       # {}
                      /\ AnyRule(heap, c, driver.idempotent_commands_avoid_rules)
                             => \E d \in LinesAt(heap, last.ret[1], NegatedPath(heap, c)) :
                                    ~heap[d].new_in_config

\* The text the rules of precedence give the negation of n: the replacement the
\* policy names, else "default " before the text without its negation prefix
\* where a default-on-negation rule matches, else the text with the negation
\* prefix toggled.
NegationOf(h, n) ==
    IF ~IsNone(negation_negate_with_check(h, n))
    THEN Val(negation_negate_with_check(h, n))
    ELSE IF AnyRule(h, n, driver.negation_default_when_rules)
    THEN DefaultPrefix \o removeprefix(h[n].text, driver.negation_prefix)
    ELSE IF startswith(h[n].text, driver.negation_prefix)
    THEN removeprefix(h[n].text, driver.negation_prefix)
    ELSE driver.negation_prefix \o h[n].text

\* The running lines absent from the target that have a replacement are in the
\* remediation under the replacement text and not under the prefixed text.
Replaced(h, l) ==
    \A c \in Below(h, l.self) :
        (/\ Absent(h, c, l.target) /\ ~Overwritten(h, c)
         /\ ~is_idempotent_command(h, c, SiblingsIn(h, c, l.target))
         /\ ~IsNone(negation_negate_with_check(h, c)))
            => /\ LinesAt(h, l.ret[1],
                          Append(ParentPath(h, c), Val(negation_negate_with_check(h, c))))
                      # {}
               /\ LinesAt(h, l.ret[1],
                          Append(ParentPath(h, c), driver.negation_prefix \o h[c].text))
                      = {}

\* C16: negate() gives a line the replacement text of the policy if there is one,
\* else "default " and the text without its negation prefix if a
\* default-on-negation rule matches, else the text with the negation prefix
\* toggled; and a running line absent from the target that has a replacement is
\* in the remediation as the replacement text, not as a prefixed negation.
C16_NegatePrecedence ==
    [][/\ last'.op = "negate"
              => heap'[last'.self].text = NegationOf(heap, last'.self)
       /\ IsRemediation(last') => Replaced(heap', last')]_vars

\* C17: for an empty running tree and an applied tree R, running.future(R) holds
\* the lines of R at every level: R.unified_diff(running.future(R)) is empty.
C17_FutureOfEmpty ==
    (/\ last.op = "future" /\ last.prev = <<last.target>>
     /\ heap[last.self].children = <<>>)
        => unified_diff(heap, last.target, last.ret[1]) = <<>>

\* C18: in config_to_get_to, for every running line absent from the target at its
\* path that is no idempotent command, the remediation holds at that path a
\* childless line with the negated text; that line has the comment
\* "removes N lines", N the running line's children + 1, exactly when the running
\* line has children.  (Lines inside a section that a sectional-overwrite rule
\* rewrites are left out.)
C18_RemovalPass ==
    IsRemediation(last)
        => \A c \in Below(heap, last.self) :
               (/\ Absent(heap, c, last.target) /\ ~Overwritten(heap, c)
                /\ ~is_idempotent_command(heap, c, SiblingsIn(heap, c, last.target)))
                   => \E d \in LinesAt(heap, last.ret[1], NegatedPath(heap, c)) :
                          /\ heap[d].children = <<>>
                          /\ Len(heap[c].children) > 0
                                 => RemovesComment(Len(heap[c].children))
                                        \in heap[d].comments
                          /\ Len(heap[c].children) = 0
                                 => \A k \in 1..MaxRuleLines :
                                        RemovesComment(k) \notin heap[d].comments

\* The target lines absent from the running tree are copied into the remediation
\* with their subtrees, the copies marked new_in_config, "new section" on a copy
\* that has children, and nothing else is marked; `everywhere` says whether the
\* lines inside sectional-overwrite sections are spoken about too.
Copied(h, l, everywhere) ==
    /\ \A t \in Below(h, l.target) :
           (Absent(h, t, l.self) /\ (everywhere \/ ~Overwritten(h, t)))
               => \E d \in LinesAt(h, l.ret[1], PathOf(h, t)) :
                      /\ SameTree(h, d, t)
                      /\ \A n \in {d} \cup Below(h, d) : h[n].new_in_config
                      /\ ("new section" \in h[d].comments) <=> (Len(h[t].children) > 0)
    /\ \A n \in Below(h, l.ret[1]) :
           h[n].new_in_config
               => \E t \in Below(h, l.target) :
                      /\ Absent(h, t, l.self)
                      /\ \E k \in 1..Len(PathOf(h, n)) :
                             SubSeq(PathOf(h, n), 1, k) = PathOf(h, t)

C20_SectionalOverwrite ==
    IsRemediation(last)
        => \A c \in Below(heap, last.self), t \in Below(heap, last.target) :
               (/\ PathOf(heap, c) = PathOf(heap, t)
                /\ \/ sectional_overwrite_check(heap, c)
                   \/ sectional_overwrite_no_negate_check(heap, c)
                /\ ~ListEq(heap, heap[c].children, heap[t].children))
                   => /\ \E d \in LinesAt(heap, last.ret[1], PathOf(heap, t)) :
                             /\ "re-create section" \in heap[d].comments
                             /\ SameTree(heap, d, t)
                             /\ LinesAt(heap, last.ret[1], PathOf(heap, t)) = {d}
                             /\ sectional_overwrite_check(heap, c)
                                    => \E n \in LinesAt(heap, last.ret[1],
                                                        NegatedPath(heap, c)) :
                                           /\ "dropping section" \in heap[n].comments
                                           /\ heap[n].children = <<>>
                                           /\ ComesBefore(heap[heap[d].parent].children,
                                                          n, d)
                      /\ ~sectional_overwrite_check(heap, c)
                             => LinesAt(heap, last.ret[1], NegatedPath(heap, c)) = {}

-----------------------------------------------------------------------------
(* Claims about the cases of future *)

\* running.future(applied) has returned the predicted tree last.ret[1].
IsPrediction(l) == l.op = "future" /\ l.prev = <<l.target>>

\* The children of tree that have the text.
TopLines(h, tree, text) == {d \in Range(h[tree].children) : h[d].text = text}

IsOverwrite(h, c) ==
    sectional_overwrite_check(h, c) \/ sectional_overwrite_no_negate_check(h, c)

\* The applied child c is the replacement that the policy names for the negation
\* of a running child: _future_pre leaves it out.
IgnoredReplacement(h, c, running) ==
    \E s \in Range(h[running].children) :
        /\ ~IsNone(negation_negate_with_check(h, s))
        /\ Val(negation_negate_with_check(h, s)) = h[c].text

\* C21: in future(), for every applied child that a sectional-overwrite or
\* sectional-overwrite-no-negate rule matches, the predicted tree has one line of
\* that text and it has exactly the applied child's subtree: nothing of the
\* running section survives in it.  (Stated for the children of the two roots.)
C21_FutureOverwritesSection ==
    IsPrediction(last)
        => \A c \in Range(heap[last.target].children) :
               (IsOverwrite(heap, c) /\ ~IgnoredReplacement(heap, c, last.self))
                   => \E d \in TopLines(heap, last.ret[1], heap[c].text) :
                          /\ SameTree(heap, d, c)
                          /\ TopLines(heap, last.ret[1], heap[c].text) = {d}

\* The applied child c negates a running child: it has the negation prefix and
\* the running tree has the text without it.
NegatesRunning(h, c, running) ==
    /\ startswith(h[c].text, driver.negation_prefix)
    /\ TopLines(h, running, removeprefix(h[c].text, driver.negation_prefix)) # {}

\* C22: in future(), every applied child that is not sectional-overwrite, not an
\* idempotent replacement, not in the running tree by its text and that negates
\* no running child is in the predicted tree with its full subtree; so an applied
\* line X, applied to a running tree that has the negation prefix + X, is in the
\* predicted tree.  (Stated for the children of the two roots.)
C22_FutureAddsApplied ==
    IsPrediction(last)
        => \A c \in Range(heap[last.target].children) :
               (/\ ~IsOverwrite(heap, c)
                /\ ~IgnoredReplacement(heap, c, last.self)
                /\ idempotent_for(heap, c, heap[last.self].children) = Nil
                /\ TopLines(heap, last.self, heap[c].text) = {}
                /\ ~NegatesRunning(heap, c, last.self))
                   => \E d \in TopLines(heap, last.ret[1], heap[c].text) :
                          SameTree(heap, d, c)

\* The running child s is consumed by the applied tree: an applied idempotent
\* command replaces it, the applied tree has its text, or an applied line negates
\* it (by the negation prefix or as the replacement the policy names).
Consumed(h, s, applied) ==
    \/ \E c \in Range(h[applied].children) :
           \/ idempotent_for(h, c, h[h[s].parent].children) = s
           \/ h[c].text = h[s].text
           \/ h[c].text = driver.negation_prefix \o h[s].text
           \/ h[s].text = driver.negation_prefix \o h[c].text
    \/ /\ ~IsNone(negation_negate_with_check(h, s))
       /\ TopLines(h, applied, Val(negation_negate_with_check(h, s))) # {}

\* C23: in future(), every running child that is not consumed is in the predicted
\* tree with exactly its original subtree; and an applied negation line whose
\* un-negated text is a running child leaves neither the negation line nor that
\* running child in the predicted tree.  (Stated for the children of the two
\* roots.)
C23_FutureCarriesForward ==
    IsPrediction(last)
        => /\ \A s \in Range(heap[last.self].children) :
                  ~Consumed(heap, s, last.target)
                      => \E d \in TopLines(heap, last.ret[1], heap[s].text) :
                             SameTree(heap, d, s)
           /\ \A c \in Range(heap[last.target].children) :
                  NegatesRunning(heap, c, last.self)
                      => /\ TopLines(heap, last.ret[1], heap[c].text) = {}
                         /\ TopLines(heap, last.ret[1],
                                     removeprefix(heap[c].text, driver.negation_prefix))
                                = {}

-----------------------------------------------------------------------------
(* Claims about the shape of the tree *)

\* C24: after any sequence of add_child, delete and move, every node in the child
\* list of a node P has P as its parent back-reference, and its depth() is
\* P.depth() + 1; after child.move(new_parent) the child is in new_parent's list,
\* not in its old parent's list, and its depth is new_parent.depth() + 1.
C24_ChildrenPointBack ==
    /\ \A p \in Attached(heap) :
           \A c \in Range(heap[p].children) :
               /\ heap[c].parent = p
               /\ depth(heap, c) = depth(heap, p) + 1
    /\ last.op = "move"
           => /\ last.self \in Range(heap[last.ret[1]].children)
              /\ depth(heap, last.self) = depth(heap, last.ret[1]) + 1

\* C27: after any sequence of append (default update_mapping), extend (with any
\* iterable of children, a one-shot iterator included), __setitem__, delete (by
\* child or by text) and clear on a children container, the text mapping has as
\* keys exactly the distinct texts of the stored children and maps each text to
\* the earliest stored child with that text.
C27_MappingAgrees == IndexAgrees(heap, Container)

\* C25: set_order_weight gives every node the weight of the first ordering rule,
\* in the order of the rule list, whose lineage matches the node, and leaves the
\* weight of a node that no rule matches at its default 0.
C25_FirstOrderingRuleWins ==
    last.op = "set_order_weight"
        => \A n \in Below(heap, last.self) :
               LET rules == driver.ordering_rules
                   hit == {i \in 1..Len(rules) : lineage_test(heap, n, rules[i].lineage)}
               IN heap[n].order_weight =
                      IF hit = {} THEN 0 ELSE rules[Min(hit)].weight

-----------------------------------------------------------------------------
(* Claims about range expansion *)

\* A part is one integer, or two integers in rising order with a dash between
\* them.
IsNumber(part) == isdecimal(part)

IsSpan(part) ==
    \E i \in 1..Len(part) :
        /\ part[i] = "-"
        /\ isdecimal(SubSeq(part, 1, i - 1))
        /\ isdecimal(SubSeq(part, i + 1, Len(part)))
        /\ IntOf(SubSeq(part, 1, i - 1)) <= IntOf(SubSeq(part, i + 1, Len(part)))

\* The integers a well-formed part covers.
Covered(part) ==
    IF IsNumber(part) THEN <<IntOf(part)>>
    ELSE LET i == CHOOSE j \in 1..Len(part) : part[j] = "-"
         IN RangeOf(IntOf(SubSeq(part, 1, i - 1)), IntOf(SubSeq(part, i + 1, Len(part))))

RECURSIVE CoveredBy(_)
CoveredBy(parts) ==
    IF Len(parts) = 0 THEN <<>> ELSE Covered(parts[1]) \o CoveredBy(Tail(parts))

\* C26: expand_range, given a comma-separated list whose parts are single
\* integers or inclusive ranges "a-b", returns the covered integers in order of
\* appearance; it raises ValueError only when a part is malformed or when an
\* integer would appear more than once.
C26_ExpandRange ==
    last.op = "expand_range"
        => LET parts == split_sep(last.text, ",")
               wellformed == \A i \in 1..Len(parts) : IsNumber(parts[i]) \/ IsSpan(parts[i])
           IN IF wellformed /\ Cardinality(Range(CoveredBy(parts))) = Len(CoveredBy(parts))
              THEN last.err = NoErr /\ last.ret = CoveredBy(parts)
              ELSE last.err = "ValueError"

-----------------------------------------------------------------------------
(* Claims about what the calls leave alone *)

BuildsTree == {"config_to_get_to", "difference", "future", "with_tags", "deep_copy"}

\* C28: config_to_get_to, difference, future, with_tags and deep_copy do not
\* modify their input trees: every node that exists before the call has the same
\* child list, text index, text, tags, comments, order weight and new_in_config
\* after it; only the tree the call returns is written.
C28_InputsUntouched ==
    [][last'.op \in BuildsTree
           => /\ Len(heap') >= Len(heap)
              /\ \A n \in 1..Len(heap) : heap'[n] = heap[n]]_vars

\* A remediation was computed from a running tree with a tagged section that the
\* target lacks: the negation in the remediation has the "removes" comment.
C28_Witness ==
    /\ last.op = "config_to_get_to"
    /\ \E c \in Below(heap, last.self) :
           /\ heap[c].children # <<>> /\ tags(heap, c) # {}
           /\ Absent(heap, c, last.target)
    /\ \E d \in Below(heap, last.ret[1]) : heap[d].comments # {}

\* The lines below a and below b agree one by one, in order: text, tags,
\* comments and new_in_config.
RECURSIVE SameLines(_, _, _)
SameLines(h, a, b) ==
    /\ Len(h[a].children) = Len(h[b].children)
    /\ \A i \in 1..Len(h[a].children) :
           LET x == h[a].children[i]
               y == h[b].children[i]
           IN /\ h[x].text = h[y].text
              /\ tags(h, x) = tags(h, y)
              /\ h[x].comments = h[y].comments
              /\ h[x].new_in_config = h[y].new_in_config
              /\ SameLines(h, x, y)

\* C29: for every tree T, remediation trees with new_in_config, comments and
\* tags included, T.deep_copy() == T: the copy has the same texts in the same
\* order and the same tags, comments and new_in_config flag at every node.
C29_DeepCopyEqual ==
    last.op = "deep_copy"
        => /\ RootEq(heap, last.self, last.ret[1])
           /\ SameLines(heap, last.self, last.ret[1])

-----------------------------------------------------------------------------
(* Claims about the leaves of a tag view *)

\* C30: every leaf of the tree returned by with_tags(tags) is a copy of a leaf of
\* the source tree whose own tag set is a superset of tags: no source branch is in
\* the view as a childless node.
C30_ViewLeavesAreTaggedLeaves ==
    last.op = "with_tags"
        => \A d \in Below(heap, last.ret[1]) :
               heap[d].children = <<>>
                   => \E c \in Below(heap, last.self) :
                          /\ PathOf(heap, c) = PathOf(heap, d)
                          /\ heap[c].children = <<>>
                          /\ last.tag.v \subseteq heap[c].tags

=============================================================================
